---- MODULE Spec2Model ----
(***************************************************************************)
(* Model of the offline-keystore key-custody ceremony:                     *)
(*   - lib.rs : hsm_initialize / personalize / restore, ca_initialize,     *)
(*              ca_sign / ca_sign_csrspec                                  *)
(*   - main.rs: the `hsm initialize` command and do_ceremony               *)
(* The YubiHSM is modelled by the objects it stores (wrap key, factory     *)
(* default authentication key, admin authentication key); every device     *)
(* operation either succeeds with the effect the code relies on or is      *)
(* rejected by the device and leaves the objects alone.                    *)
(***************************************************************************)
EXTENDS Integers, Sequences, FiniteSets, TLC

\* ------------------------------------------------------------ constants
ID == 1
KEY_LEN == 32
SHARES == 5
THRESHOLD == 3
WRAP_ID == 1
AUTH_ID == 2
DEFAULT_AUTHENTICATION_KEY_ID == 1

ALG == "Aes256Ccm"
CAPS == "all"
DELEGATED_CAPS == "all"
WRAP_DOMAIN == "all"   \* DOMAIN (a reserved word here)
LABEL == "backup"
AUTH_LABEL == "admin"
DEFAULT_PASSWORD == "password"

None == "None"

\* ------------------------------------------------------------ bounds
\* number of distinct outputs of the HSM PRNG that are explored
NumSeeds == 2
\* number of distinct random polynomials generate_shares may draw
NumCoefSeeds == 1
\* number of genuine shares of which a tampered copy may be entered at restore
NumTampered == 1
\* mismatched confirmation rounds an operator goes through at most
MaxRetries == 2

\* ------------------------------------------------------------ GF(2^8)
\* rusty_secrets works byte-wise in GF(2^8); addition is xor, multiplication
\* is polynomial multiplication reduced by x^8 + x^4 + x^3 + x^2 + 1.
RECURSIVE Xor(_, _)
Xor(a, b) ==
    IF a = 0 THEN b
    ELSE IF b = 0 THEN a
    ELSE (((a % 2) + (b % 2)) % 2) + (2 * Xor(a \div 2, b \div 2))

XTimes(a) ==
    LET s == (2 * a) % 256
    IN  IF a >= 128 THEN Xor(s, 29) ELSE s

RECURSIVE GFMul(_, _)
GFMul(a, b) ==
    IF a = 0 \/ b = 0 THEN 0
    ELSE Xor(IF b % 2 = 1 THEN a ELSE 0, GFMul(XTimes(a), b \div 2))

RECURSIVE GFPow(_, _)
GFPow(a, e) ==
    IF e = 0 THEN 1
    ELSE LET h == GFPow(a, e \div 2)
             sq == GFMul(h, h)
         IN  IF e % 2 = 1 THEN GFMul(sq, a) ELSE sq

\* multiplicative inverse: a^(2^8 - 2)
GFInv(a) == GFPow(a, 254)

GFDiv(a, b) == GFMul(a, GFInv(b))

\* ------------------------------------------------------------ shamir
\* the bytes the device PRNG returns for a request of n bytes
PseudoRandom(seed, n) == [i \in 1..n |-> ((seed * 83) + (i * 7)) % 256]

\* coefficient j (1..k-1) of the random polynomial hiding byte i
Coef(cseed, i, j) == ((cseed * 101) + (i * 13) + (j * 57)) % 256

\* value at x of the polynomial  secret + c1 x + ... + c(k-1) x^(k-1)
RECURSIVE PolyEval(_, _, _, _, _)
PolyEval(secret, cseed, i, x, j) ==
    IF j = 0 THEN secret
    ELSE LET hi == PolyEval(secret, cseed, i, x, j - 1)
             RECURSIVE Pow(_)
             Pow(e) == IF e = 0 THEN 1 ELSE GFMul(x, Pow(e - 1))
         IN  Xor(hi, GFMul(Coef(cseed, i, j), Pow(j)))

\* rusty_secrets::generate_shares(k, n, secret): n shares "k-x-data"
generate_shares(k, n, secret, cseed) ==
    IF k > n \/ k < 1 \/ Len(secret) = 0 THEN [ok |-> FALSE, shares |-> <<>>]
    ELSE [ok |-> TRUE,
          shares |-> [x \in 1..n |->
                        [k |-> k, n |-> x,
                         data |-> [i \in 1..Len(secret) |->
                                     PolyEval(secret[i], cseed, i, x, k - 1)]]]]

\* the first k shares with pairwise different share numbers, in entry order
RECURSIVE FirstDistinct(_, _, _)
FirstDistinct(entered, k, acc) ==
    IF Len(acc) = k \/ entered = <<>> THEN acc
    ELSE IF \E j \in 1..Len(acc) : acc[j].n = Head(entered).n
         THEN FirstDistinct(Tail(entered), k, acc)
         ELSE FirstDistinct(Tail(entered), k, Append(acc, Head(entered)))

\* Lagrange basis polynomial of share a at 0 for the share numbers in sel
LagrangeAt0(sel, a) ==
    LET RECURSIVE Prod(_)
        Prod(b) == IF b > Len(sel) THEN 1
                   ELSE IF b = a THEN Prod(b + 1)
                   ELSE GFMul(GFDiv(sel[b].n, Xor(sel[b].n, sel[a].n)), Prod(b + 1))
    IN  Prod(1)

RECURSIVE Weights(_, _)
Weights(sel, a) ==
    IF a > Len(sel) THEN <<>> ELSE <<LagrangeAt0(sel, a)>> \o Weights(sel, a + 1)

\* byte i of the interpolated polynomial at 0
RECURSIVE Interpolate(_, _, _, _)
Interpolate(sel, w, i, a) ==
    IF a > Len(sel) THEN 0
    ELSE Xor(GFMul(sel[a].data[i], w[a]), Interpolate(sel, w, i, a + 1))

RECURSIVE SecretBytes(_, _, _, _)
SecretBytes(sel, w, i, l) ==
    IF i > l THEN <<>> ELSE <<Interpolate(sel, w, i, 1)>> \o SecretBytes(sel, w, i + 1, l)

\* rusty_secrets::recover_secret(shares): every share must parse and agree on
\* the threshold k and the data length; the first k shares with different
\* share numbers are interpolated; fewer than k of them is an error.  The
\* share data carries no checksum or signature.
recover_secret(entered) ==
    IF entered = <<>> \/ \E j \in 1..Len(entered) : entered[j].k = 0
    THEN [ok |-> FALSE, secret |-> <<>>]
    ELSE LET k == entered[1].k
             l == Len(entered[1].data)
         IN IF \E j \in 1..Len(entered) :
                    entered[j].k # k \/ Len(entered[j].data) # l
            THEN [ok |-> FALSE, secret |-> <<>>]
            ELSE LET sel == FirstDistinct(entered, k, <<>>)
                 IN IF Len(sel) < k THEN [ok |-> FALSE, secret |-> <<>>]
                    ELSE [ok |-> TRUE,
                          secret |-> SecretBytes(sel, Weights(sel, 1), 1, l)]

\* ------------------------------------------------------------ state
VARIABLES
    path,           \* which program runs: "lib", "cmd", "ceremony", "restore"
    pc,             \* position in that program
    cfg,            \* command line and environment of the run
    wrapObj,        \* HSM: the wrap key objects it stores (none or one)
    defaultAuth,    \* HSM: the factory-default authentication key exists
    adminAuth,      \* HSM: password the admin authentication key derives from, or None
    hsmRandom,      \* HSM: the bytes its PRNG handed out last
    sessions,       \* auth ids of the open authenticated sessions
    wrap_key,       \* process buffer holding the wrap key bytes
    retId,          \* id returned by put_wrap_key (empty before the call)
    password,       \* the accepted new password
    personalize_ret,\* return value of personalize / replace_default_auth
    attestCert,     \* the device attestation certificate has been captured
    outFiles,       \* files written to the output directory
    shares,         \* result of generate_shares
    shareIdx,       \* share the print loop is at
    printed,        \* what has been written to the print device
    linesRead,      \* lines of operator input wait_for_line has read
    log,            \* secret-bearing records handed to the log macros
    gk,             \* hsm_generate_key_batch / hsm_generate_key: the run and its effects
    bt,             \* initialize_all_ca and sign_all: the run and its effects
    cred,           \* `hsm` command: auth id passed to Hsm::new, origin of the password
    hsmOps,         \* HSM operations the running library call has issued, in order
    rshares,        \* restore: the share lines entered
    rkey,           \* restore: the recombined key
    rWrapObj,       \* restore: wrap key objects of the HSM being restored
    passwd,         \* main: the password the session authenticates with
    printedPasswd,  \* main: the new password written to the print device, or None
    ca,             \* ca_initialize / ca_sign: the state of the run (a record)
    prompt,         \* the new-password dialogue: entries of the last round, rounds
    sg              \* ShareGetter and the input it reads (a record)

hsmVars == <<wrapObj, defaultAuth, adminAuth, hsmRandom, sessions>>
procVars == <<wrap_key, retId, password, personalize_ret, attestCert, outFiles>>
printVars == <<shares, shareIdx, printed, linesRead>>
restoreVars == <<rshares, rkey, rWrapObj>>
mainVars == <<passwd, printedPasswd, cred>>
hsmRun == <<path, pc, cfg, hsmVars, procVars, printVars, restoreVars, mainVars,
            prompt, log, hsmOps>>
hsmSide == <<hsmRun, gk, bt>>
vars == <<hsmSide, ca, sg>>

Passwords == {"pwA", "pwB", "pwC"}
IoError == "IoError"
EOF == "EOF"
Zeroed == "zeroed"
\* an input line that is no share at all
Garbage == [k |-> 0, n |-> 0, data |-> <<>>]
\* ids the device may report for a stored object
ReturnedIds == {ID, ID + 1}

\* an Option<Id> is the set of its values: {} is None, {a} is Some(a)
LibCfg == [command |-> "Initialize", no_backup |-> FALSE, challenge |-> TRUE,
           auth_id |-> {}, env_password |-> None, env_new_password |-> None]

\* the dialogue before the first prompt; unzeroed are the entries whose buffers
\* were dropped holding the plaintext
\* randLen are the lengths of the strings requested from Hsm::rand_string
NoPrompt == [entry1 |-> None, entry2 |-> None, rounds |-> 0, rejected |-> {},
             returns |-> 0, unzeroed |-> {}, randLen |-> {}]

\* the dialogue after a round with the entries p1 and p2: a mismatch is one more
\* rejected round, a match ends the loop with p1
Round(pr, p1, p2) ==
    IF p1 # p2
    THEN [pr EXCEPT !.entry1 = p1, !.entry2 = p2, !.rounds = @ + 1,
                    !.rejected = @ \cup {p1, p2}]
    ELSE [pr EXCEPT !.entry1 = p1, !.entry2 = p2, !.returns = @ + 1]

\* debug!(..) with a secret value among its arguments
Debug(what) == [level |-> "debug", what |-> what]

\* the records the logger writes out: main sets the level filter to Debug when
\* --verbose is given and to Info otherwise
Emitted(verbose) == {e \in log : e.level # "debug" \/ verbose}

\* no credential chosen yet
NoCred == [auth_id |-> {}, from |-> None]

\* the client issues the operation op and the device answers ok or an error
Issue(op, ok) == hsmOps' = Append(hsmOps, [op |-> op, ok |-> ok])

InitHsmState ==
    /\ wrapObj = {} /\ defaultAuth = TRUE /\ adminAuth = None
    /\ hsmRandom = <<>> /\ sessions = {}
    /\ wrap_key = <<>> /\ retId = {} /\ password = None
    /\ personalize_ret = None /\ attestCert = FALSE /\ outFiles = {}
    /\ shares = <<>> /\ shareIdx = 0 /\ printed = <<>> /\ linesRead = 0
    /\ rshares = <<>> /\ rkey = <<>> /\ rWrapObj = {}
    /\ passwd = None /\ printedPasswd = None /\ cred = NoCred
    /\ prompt = NoPrompt /\ log = {} /\ hsmOps = <<>>

\* ------------------------------------------------------------ hsm_initialize
\* arguments of put_wrap_key in hsm_initialize
InitWrapObject(key) ==
    [id |-> ID, label |-> LABEL, domain |-> WRAP_DOMAIN, caps |-> CAPS,
     delegated |-> DELEGATED_CAPS, alg |-> ALG, key |-> key]

HiGetRandom ==
    /\ path = "lib" /\ pc = "hi_random"
    /\ \/ \E seed \in 1..NumSeeds :
            /\ wrap_key' = PseudoRandom(seed, KEY_LEN)
            /\ hsmRandom' = PseudoRandom(seed, KEY_LEN)
            /\ log' = log \cup {Debug("wrap key")}
            /\ pc' = "hi_put_wrap"
       \/ /\ pc' = "err"
          /\ UNCHANGED <<wrap_key, hsmRandom, log>>
    /\ UNCHANGED <<path, cfg, wrapObj, defaultAuth, adminAuth, sessions, retId,
                   password, personalize_ret, attestCert, outFiles, printVars,
                   restoreVars, mainVars>>
    /\ Issue("get_pseudo_random", pc' # "err")
    /\ UNCHANGED <<gk, bt, ca, sg, prompt>>

\* mutant: the error of put_wrap_key is dropped and personalize runs anyway
HiPutWrapKey_IgnoreError ==
    /\ path = "lib" /\ pc = "hi_put_wrap"
    /\ \/ \E rid \in ReturnedIds :
            /\ wrapObj' = {[InitWrapObject(wrap_key) EXCEPT !.id = rid]}
            /\ retId' = {rid}
            /\ pc' = "hi_assert"
       \/ /\ pc' = "p_passwd"
          /\ UNCHANGED <<wrapObj, retId>>
    /\ UNCHANGED <<path, cfg, defaultAuth, adminAuth, hsmRandom, sessions, wrap_key,
                   password, personalize_ret, attestCert, outFiles, printVars,
                   restoreVars, mainVars>>
    /\ Issue("put_wrap_key", pc' = "hi_assert")
    /\ UNCHANGED <<gk, bt, ca, sg, prompt, log>>

HiPutWrapKey ==
    /\ path = "lib" /\ pc = "hi_put_wrap"
    /\ \/ \E rid \in ReturnedIds :
            /\ wrapObj' = {[InitWrapObject(wrap_key) EXCEPT !.id = rid]}
            /\ retId' = {rid}
            /\ pc' = "hi_assert"
       \/ /\ pc' = "err"
          /\ UNCHANGED <<wrapObj, retId>>
    /\ UNCHANGED <<path, cfg, defaultAuth, adminAuth, hsmRandom, sessions, wrap_key,
                   password, personalize_ret, attestCert, outFiles, printVars,
                   restoreVars, mainVars>>
    /\ Issue("put_wrap_key", pc' # "err")
    /\ UNCHANGED <<gk, bt, ca, sg, prompt, log>>

\* mutant: the returned id is not compared with WRAP_ID
HiAssertId_NoCheck ==
    /\ path = "lib" /\ pc = "hi_assert"
    /\ pc' = "p_passwd"
    /\ UNCHANGED <<path, cfg, hsmVars, procVars, printVars, restoreVars, mainVars>>
    /\ UNCHANGED <<hsmOps, gk, bt, ca, sg, prompt, log>>

\* assert_eq!(id, WRAP_ID)
HiAssertId ==
    /\ path = "lib" /\ pc = "hi_assert"
    /\ pc' = IF retId = {WRAP_ID} THEN "p_passwd" ELSE "panic"
    /\ UNCHANGED <<path, cfg, hsmVars, procVars, printVars, restoreVars, mainVars>>
    /\ UNCHANGED <<hsmOps, gk, bt, ca, sg, prompt, log>>

\* ------------------------------------------------------------ personalize
\* mutant: a mismatched round ends the loop with its first entry
PPromptPassword_FirstEntry ==
    /\ path = "lib" /\ pc = "p_passwd"
    /\ \E p1 \in Passwords, p2 \in Passwords :
          /\ pc' = "p_put_auth" /\ password' = p1
          /\ log' = log \cup {Debug("password")}
          /\ prompt' = [prompt EXCEPT !.entry1 = p1, !.entry2 = p2, !.returns = @ + 1]
    /\ UNCHANGED <<path, cfg, hsmVars, wrap_key, retId, personalize_ret, attestCert,
                   outFiles, printVars, restoreVars, mainVars>>
    /\ UNCHANGED <<hsmOps, gk, bt, ca, sg>>

\* one round of the password loop: two prompts, compared
PPromptPassword ==
    /\ path = "lib" /\ pc = "p_passwd"
    /\ \E p1 \in Passwords \cup {IoError}, p2 \in Passwords \cup {IoError} :
          IF p1 = IoError \/ p2 = IoError
          THEN pc' = "panic" /\ UNCHANGED <<password, prompt, log>>
          ELSE IF p1 # p2
          THEN \* both Strings go out of scope as they are
               /\ prompt.rounds < MaxRetries
               /\ prompt' = [Round(prompt, p1, p2) EXCEPT !.unzeroed = @ \cup {p1, p2}]
               /\ UNCHANGED <<pc, password, log>>
          ELSE /\ pc' = "p_put_auth" /\ password' = p1
               /\ prompt' = Round(prompt, p1, p2)
               /\ log' = log \cup {Debug("password")}
    /\ UNCHANGED <<path, cfg, hsmVars, wrap_key, retId, personalize_ret, attestCert,
                   outFiles, printVars, restoreVars, mainVars>>
    /\ UNCHANGED <<hsmOps, gk, bt, ca, sg>>

\* mutant: a failed put_authentication_key is issued a second time
PPutAuthKey_Retry ==
    /\ path = "lib" /\ pc = "p_put_auth"
    /\ \/ /\ adminAuth' = password
          /\ pc' = "p_delete"
          /\ Issue("put_authentication_key", TRUE)
          /\ UNCHANGED personalize_ret
       \/ /\ pc' = "err" /\ personalize_ret' = "Err"
          /\ hsmOps' = hsmOps \o << [op |-> "put_authentication_key", ok |-> FALSE],
                                   [op |-> "put_authentication_key", ok |-> FALSE] >>
          /\ UNCHANGED adminAuth
    /\ UNCHANGED <<path, cfg, wrapObj, defaultAuth, hsmRandom, sessions, wrap_key,
                   retId, password, attestCert, outFiles, printVars, restoreVars, mainVars>>
    /\ UNCHANGED <<gk, bt, ca, sg, prompt, log>>

\* mutant: the error of put_authentication_key is dropped
PPutAuthKey_IgnoreError ==
    /\ path = "lib" /\ pc = "p_put_auth"
    /\ \/ adminAuth' = password
       \/ UNCHANGED adminAuth
    /\ pc' = "p_delete"
    /\ UNCHANGED <<path, cfg, wrapObj, defaultAuth, hsmRandom, sessions, wrap_key,
                   retId, password, personalize_ret, attestCert, outFiles, printVars,
                   restoreVars, mainVars>>
    /\ Issue("put_authentication_key", adminAuth' = password)
    /\ UNCHANGED <<gk, bt, ca, sg, prompt, log>>

PPutAuthKey ==
    /\ path = "lib" /\ pc = "p_put_auth"
    /\ \/ /\ adminAuth' = password
          /\ pc' = "p_delete"
          /\ UNCHANGED personalize_ret
       \/ /\ pc' = "err" /\ personalize_ret' = "Err"
          /\ UNCHANGED adminAuth
    /\ UNCHANGED <<path, cfg, wrapObj, defaultAuth, hsmRandom, sessions, wrap_key,
                   retId, password, attestCert, outFiles, printVars, restoreVars, mainVars>>
    /\ Issue("put_authentication_key", pc' # "err")
    /\ UNCHANGED <<gk, bt, ca, sg, prompt, log>>

\* mutant: the error of delete_object is dropped
PDeleteDefault_IgnoreError ==
    /\ path = "lib" /\ pc = "p_delete"
    /\ \/ defaultAuth' = FALSE
       \/ UNCHANGED defaultAuth
    /\ pc' = "p_export"
    /\ UNCHANGED <<path, cfg, wrapObj, adminAuth, hsmRandom, sessions, wrap_key,
                   retId, password, personalize_ret, attestCert, outFiles, printVars,
                   restoreVars, mainVars>>
    /\ Issue("delete_object", ~defaultAuth')
    /\ UNCHANGED <<gk, bt, ca, sg, prompt, log>>

PDeleteDefault ==
    /\ path = "lib" /\ pc = "p_delete"
    /\ \/ /\ defaultAuth' = FALSE
          /\ pc' = "p_export"
          /\ UNCHANGED personalize_ret
       \/ /\ pc' = "err" /\ personalize_ret' = "Err"
          /\ UNCHANGED defaultAuth
    /\ UNCHANGED <<path, cfg, wrapObj, adminAuth, hsmRandom, sessions, wrap_key,
                   retId, password, attestCert, outFiles, printVars, restoreVars, mainVars>>
    /\ Issue("delete_object", pc' # "err")
    /\ UNCHANGED <<gk, bt, ca, sg, prompt, log>>

\* mutant: a failed export rolls the credentials back
PExportWrapped_Rollback ==
    /\ path = "lib" /\ pc = "p_export"
    /\ \/ /\ \E w \in wrapObj : w.id = WRAP_ID
          /\ adminAuth # None
          /\ pc' = "p_write_wrap"
          /\ UNCHANGED <<personalize_ret, adminAuth, defaultAuth>>
       \/ /\ pc' = "err" /\ personalize_ret' = "Err"
          /\ adminAuth' = None /\ defaultAuth' = TRUE
    /\ UNCHANGED <<path, cfg, wrapObj, hsmRandom, sessions, wrap_key, retId, password,
                   attestCert, outFiles, printVars, restoreVars, mainVars>>
    /\ Issue("export_wrapped", pc' # "err")
    /\ UNCHANGED <<gk, bt, ca, sg, prompt, log>>

\* export_wrapped(wrap_id, AuthenticationKey, AUTH_ID)
PExportWrapped ==
    /\ path = "lib" /\ pc = "p_export"
    /\ \/ /\ \E w \in wrapObj : w.id = WRAP_ID
          /\ adminAuth # None
          /\ pc' = "p_write_wrap"
          /\ UNCHANGED personalize_ret
       \/ pc' = "err" /\ personalize_ret' = "Err"
    /\ UNCHANGED <<path, cfg, hsmVars, wrap_key, retId, password, attestCert,
                   outFiles, printVars, restoreVars, mainVars>>
    /\ Issue("export_wrapped", pc' # "err")
    /\ UNCHANGED <<gk, bt, ca, sg, prompt, log>>

PWriteWrap ==
    /\ path = "lib" /\ pc = "p_write_wrap"
    /\ \/ /\ outFiles' = outFiles \cup {"admin.wrap.json"}
          /\ pc' = "p_get_opaque"
          /\ UNCHANGED personalize_ret
       \/ /\ pc' = "err" /\ personalize_ret' = "Err"
          /\ UNCHANGED outFiles
    /\ UNCHANGED <<path, cfg, hsmVars, wrap_key, retId, password, attestCert,
                   printVars, restoreVars, mainVars>>
    /\ UNCHANGED <<hsmOps, gk, bt, ca, sg, prompt, log>>

\* get_opaque(0): the attestation certificate of the device
PGetOpaque ==
    /\ path = "lib" /\ pc = "p_get_opaque"
    /\ \/ /\ attestCert' = TRUE
          /\ pc' = "p_write_attest"
          /\ UNCHANGED personalize_ret
       \/ /\ pc' = "err" /\ personalize_ret' = "Err"
          /\ UNCHANGED attestCert
    /\ UNCHANGED <<path, cfg, hsmVars, wrap_key, retId, password, outFiles,
                   printVars, restoreVars, mainVars>>
    /\ Issue("get_opaque", pc' # "err")
    /\ UNCHANGED <<gk, bt, ca, sg, prompt, log>>

\* the attestation file is written, the password zeroized, Ok(()) returned
PWriteAttest ==
    /\ path = "lib" /\ pc = "p_write_attest"
    /\ \/ /\ outFiles' = outFiles \cup {"hsm.attest.cert.pem"}
          /\ password' = Zeroed
          /\ personalize_ret' = "Ok"
          /\ pc' = "hi_split"
          \* personalize returns: the locals of its password loop are gone
          /\ prompt' = NoPrompt
       \/ /\ pc' = "err" /\ personalize_ret' = "Err"
          /\ UNCHANGED <<outFiles, password, prompt>>
    /\ UNCHANGED <<path, cfg, hsmVars, wrap_key, retId, attestCert, printVars,
                   restoreVars, mainVars>>
    /\ UNCHANGED <<hsmOps, gk, bt, ca, sg, log>>

\* ------------------------------------------------------------ split and print
HiSplit ==
    /\ path = "lib" /\ pc = "hi_split"
    /\ \E cseed \in 1..NumCoefSeeds :
          LET r == generate_shares(THRESHOLD, SHARES, wrap_key, cseed)
          IN  IF r.ok
              THEN shares' = r.shares /\ pc' = "hi_wait_begin"
              ELSE pc' = "err" /\ UNCHANGED shares
    /\ UNCHANGED <<path, cfg, hsmVars, procVars, shareIdx, printed, linesRead,
                 restoreVars, mainVars>>
    /\ UNCHANGED <<hsmOps, gk, bt, ca, sg, prompt, log>>

\* mutant: wait_for_line returns without reading a line
wait_for_line_NoRead(from, to) ==
    /\ pc = from
    /\ pc' = to /\ UNCHANGED linesRead

\* wait_for_line(): a line of operator input, or a panic at end of input
wait_for_line(from, to) ==
    /\ pc = from
    /\ \E line \in {"line", EOF} :
          /\ pc' = IF line = EOF THEN "panic" ELSE to
          /\ linesRead' = IF line = EOF THEN linesRead ELSE linesRead + 1

HiWaitBegin ==
    /\ path = "lib"
    /\ wait_for_line("hi_wait_begin", "hi_open_print")
    /\ UNCHANGED <<path, cfg, hsmVars, procVars, shares, shareIdx, printed,
                 restoreVars, mainVars>>
    /\ UNCHANGED <<hsmOps, gk, bt, ca, sg, prompt, log>>

HiOpenPrint ==
    /\ path = "lib" /\ pc = "hi_open_print"
    /\ \/ pc' = "hi_wait_ready" /\ shareIdx' = 1
       \/ pc' = "err" /\ UNCHANGED shareIdx
    /\ UNCHANGED <<path, cfg, hsmVars, procVars, shares, printed, linesRead,
                 restoreVars, mainVars>>
    /\ UNCHANGED <<hsmOps, gk, bt, ca, sg, prompt, log>>

HiWaitReady ==
    /\ path = "lib"
    /\ wait_for_line("hi_wait_ready", "hi_write_share")
    /\ UNCHANGED <<path, cfg, hsmVars, procVars, shares, shareIdx, printed,
                 restoreVars, mainVars>>
    /\ UNCHANGED <<hsmOps, gk, bt, ca, sg, prompt, log>>

HiWriteShare ==
    /\ path = "lib" /\ pc = "hi_write_share"
    /\ \/ /\ printed' = Append(printed, shares[shareIdx])
          /\ pc' = "hi_wait_collected"
       \/ pc' = "err" /\ UNCHANGED printed
    /\ UNCHANGED <<path, cfg, hsmVars, procVars, shares, shareIdx, linesRead,
                 restoreVars, mainVars>>
    /\ UNCHANGED <<hsmOps, gk, bt, ca, sg, prompt, log>>

HiWaitCollected ==
    /\ path = "lib"
    /\ wait_for_line("hi_wait_collected",
                     IF shareIdx = Len(shares) THEN "done" ELSE "hi_wait_ready")
    /\ shareIdx' = IF pc' = "hi_wait_ready" THEN shareIdx + 1 ELSE shareIdx
    /\ UNCHANGED <<path, cfg, hsmVars, procVars, shares, printed, restoreVars, mainVars>>
    /\ UNCHANGED <<hsmOps, gk, bt, ca, sg, prompt, log>>

\* ------------------------------------------------------------ restore
\* mutant: restore stores the key under another algorithm and the next id
RestoreWrapObject_OtherObject(key) ==
    [id |-> ID + 1, label |-> LABEL, domain |-> WRAP_DOMAIN, caps |-> CAPS,
     delegated |-> DELEGATED_CAPS, alg |-> "Aes128Ccm", key |-> key]

\* arguments of put_wrap_key in restore
RestoreWrapObject(key) ==
    [id |-> ID, label |-> LABEL, domain |-> WRAP_DOMAIN, caps |-> CAPS,
     delegated |-> DELEGATED_CAPS, alg |-> ALG, key |-> key]

\* a share whose data was altered after it was printed
Tamper(share) == [share EXCEPT !.data[1] = Xor(@, 1)]

\* what an operator may type at a share prompt
ShareLines ==
    {printed[i] : i \in 1..Len(printed)}
    \cup {Tamper(printed[i]) : i \in 1..NumTampered}
    \cup {Garbage}

\* the restore program is run with the shares hsm_initialize printed
RestoreStart ==
    /\ path = "lib" /\ pc = "done"
    /\ path' = "restore" /\ pc' = "r_read"
    /\ UNCHANGED <<cfg, hsmVars, procVars, printVars, restoreVars, mainVars>>
    /\ hsmOps' = <<>>
    /\ UNCHANGED <<gk, bt, ca, sg, prompt, log>>

\* number of share lines the first loop of restore reads
RestoreCount == THRESHOLD

RReadShare ==
    /\ path = "restore" /\ pc = "r_read"
    /\ \/ \E line \in ShareLines :
            /\ rshares' = Append(rshares, line)
            /\ pc' = IF Len(rshares') = RestoreCount THEN "r_recover" ELSE "r_read"
       \/ \* end of input: lines().next().unwrap() panics
          pc' = "panic" /\ UNCHANGED rshares
    /\ UNCHANGED <<path, cfg, hsmVars, procVars, printVars, rkey, rWrapObj, mainVars>>
    /\ UNCHANGED <<hsmOps, gk, bt, ca, sg, prompt, log>>

\* recover_secret(shares).unwrap_or_else(|err| ... exit(1))
RRecover ==
    /\ path = "restore" /\ pc = "r_recover"
    /\ LET r == recover_secret(rshares)
       IN  IF r.ok
           THEN /\ rkey' = r.secret /\ pc' = "r_put"
                /\ log' = log \cup {Debug("restored wrap key")}
           ELSE pc' = "exit" /\ UNCHANGED <<rkey, log>>
    /\ UNCHANGED <<path, cfg, hsmVars, procVars, printVars, rshares, rWrapObj, mainVars>>
    /\ UNCHANGED <<hsmOps, gk, bt, ca, sg, prompt>>

RPutWrapKey ==
    /\ path = "restore" /\ pc = "r_put"
    /\ \/ /\ rWrapObj' = {RestoreWrapObject(rkey)}
          /\ pc' = "r_done"
       \/ pc' = "err" /\ UNCHANGED rWrapObj
    /\ UNCHANGED <<path, cfg, hsmVars, procVars, printVars, rshares, rkey, mainVars>>
    /\ Issue("put_wrap_key", pc' # "err")
    /\ UNCHANGED <<gk, bt, ca, sg, prompt, log>>

\* ------------------------------------------------------------ Hsm (hsm module)
\* Hsm::new(auth_id, passwd, ..): an authenticated session, granted when the
\* device holds the credential
CredentialValid(auth_id, pw) ==
    \/ auth_id = DEFAULT_AUTHENTICATION_KEY_ID /\ defaultAuth /\ pw = DEFAULT_PASSWORD
    \/ auth_id = AUTH_ID /\ adminAuth # None /\ pw = adminAuth

Hsm_new(auth_id, pw, ok) ==
    IF ok
    THEN CredentialValid(auth_id, pw) /\ sessions' = sessions \cup {auth_id}
    ELSE UNCHANGED sessions

\* Hsm::new_split_wrap(print_dev): Fresh -> WrapKeyInstalled, then the key is
\* split and every share handed out through the print device
new_split_wrap(ok) ==
    IF ok
    THEN \E seed \in 1..NumSeeds, cseed \in 1..NumCoefSeeds :
            LET key == PseudoRandom(seed, KEY_LEN)
                r == generate_shares(THRESHOLD, SHARES, key, cseed)
            IN  /\ hsmRandom' = key
                /\ wrapObj' = {InitWrapObject(key)}
                /\ shares' = r.shares /\ printed' = r.shares
                /\ shareIdx' = SHARES /\ UNCHANGED linesRead
    ELSE /\ \/ UNCHANGED <<hsmRandom, wrapObj>>
            \/ \E seed \in 1..NumSeeds :
                  /\ hsmRandom' = PseudoRandom(seed, KEY_LEN)
                  /\ wrapObj' = {InitWrapObject(PseudoRandom(seed, KEY_LEN))}
         /\ UNCHANGED printVars

\* Hsm::dump_attest_cert(None): attestation capture
dump_attest_cert(ok) ==
    IF ok
    THEN attestCert' = TRUE /\ outFiles' = outFiles \cup {"hsm.attest.cert.pem"}
    ELSE UNCHANGED <<attestCert, outFiles>>

\* Hsm::replace_default_auth(passwd): WrapKeyInstalled -> AdminCredentialInstalled
\* -> DefaultCredentialRemoved
replace_default_auth(pw, ok) ==
    IF ok
    THEN adminAuth' = pw /\ defaultAuth' = FALSE /\ personalize_ret' = "Ok"
    ELSE /\ adminAuth' \in {adminAuth, pw}
         /\ personalize_ret' = "Err"
         /\ UNCHANGED defaultAuth

\* hsm::print_password(print_dev, passwd)
print_password(pw, ok) ==
    IF ok THEN printedPasswd' = pw ELSE UNCHANGED printedPasswd

\* ------------------------------------------------------------ main.rs
DefaultStateCommands == {"Initialize", "Restore", "SerialNumber"}
PromptReplies == {DEFAULT_PASSWORD, "pwA"}
GEN_PASSWD_LENGTH == 16

\* Hsm::rand_string(length): a string of `length` characters drawn from the
\* device PRNG; c is the character the draw yields
RECURSIVE rand_string(_, _)
rand_string(c, length) == IF length = 0 THEN "" ELSE c \o rand_string(c, length - 1)

\* strings Hsm::rand_string(GEN_PASSWD_LENGTH) may return
GenPasswords == {rand_string("g", GEN_PASSWD_LENGTH)}

\* mutant: the auth id given by the caller is ignored
get_auth_id_IgnoreCaller(auth_id, command) ==
    IF command \in DefaultStateCommands THEN 1 ELSE 2

get_auth_id(auth_id, command) ==
    IF auth_id # {} THEN CHOOSE a \in auth_id : TRUE
    ELSE IF command \in DefaultStateCommands THEN 1 ELSE 2

\* rpassword::prompt_password(..)?: a reply, or IoError for a failed prompt
PromptPassword == [value : PromptReplies \cup {IoError}, from : {"prompt"}]

\* the values get_passwd may return, each with where it came from
get_passwd(auth_id, command) ==
    IF cfg.env_password # None THEN {[value |-> cfg.env_password, from |-> "env"]}
    ELSE IF auth_id # {} THEN PromptPassword
    ELSE IF command \in DefaultStateCommands
    THEN {[value |-> DEFAULT_PASSWORD, from |-> "default"]}
    ELSE PromptPassword

\* mutant: a mismatched confirmation makes get_new_passwd return an error
get_new_passwd_MismatchIsError(useHsm, to) ==
    IF cfg.env_new_password # None
    THEN password' = cfg.env_new_password /\ pc' = to /\ UNCHANGED prompt
    ELSE IF useHsm
    THEN /\ \/ \E g \in GenPasswords : password' = g /\ pc' = to
            \/ pc' = "err" /\ UNCHANGED password
         /\ prompt' = [prompt EXCEPT !.randLen = @ \cup {GEN_PASSWD_LENGTH}]
    ELSE \E p1 \in Passwords, p2 \in Passwords :
            IF p1 # p2
            THEN /\ prompt.rounds < MaxRetries
                 /\ prompt' = Round(prompt, p1, p2)
                 /\ pc' = "err" /\ UNCHANGED password
            ELSE password' = p1 /\ pc' = to /\ prompt' = Round(prompt, p1, p2)

\* mutant: a supplied Hsm is preferred to the new-password environment variable
get_new_passwd_HsmFirst(useHsm, to) ==
    IF useHsm
    THEN /\ \/ \E g \in GenPasswords : password' = g /\ pc' = to
            \/ pc' = "err" /\ UNCHANGED password
         /\ prompt' = [prompt EXCEPT !.randLen = @ \cup {GEN_PASSWD_LENGTH}]
    ELSE IF cfg.env_new_password # None
    THEN password' = cfg.env_new_password /\ pc' = to /\ UNCHANGED prompt
    ELSE \E p1 \in Passwords \cup {IoError}, p2 \in Passwords \cup {IoError} :
            IF p1 = IoError \/ p2 = IoError
            THEN pc' = "err" /\ UNCHANGED <<password, prompt>>
            ELSE IF p1 # p2
            THEN /\ prompt.rounds < MaxRetries
                 /\ prompt' = Round(prompt, p1, p2)
                 /\ UNCHANGED <<pc, password>>
            ELSE password' = p1 /\ pc' = to /\ prompt' = Round(prompt, p1, p2)

\* get_new_passwd(hsm): useHsm is hsm.is_some(); control continues at `to`
get_new_passwd(useHsm, to) ==
    IF cfg.env_new_password # None
    THEN password' = cfg.env_new_password /\ pc' = to /\ UNCHANGED prompt
    ELSE IF useHsm
    THEN /\ \/ \E g \in GenPasswords : password' = g /\ pc' = to
            \/ pc' = "err" /\ UNCHANGED password
         /\ prompt' = [prompt EXCEPT !.randLen = @ \cup {GEN_PASSWD_LENGTH}]
    ELSE \E p1 \in Passwords \cup {IoError}, p2 \in Passwords \cup {IoError} :
            IF p1 = IoError \/ p2 = IoError
            THEN pc' = "err" /\ UNCHANGED <<password, prompt>>
            ELSE IF p1 # p2
            THEN /\ prompt.rounds < MaxRetries
                 /\ prompt' = Round(prompt, p1, p2)
                 /\ UNCHANGED <<pc, password>>
            ELSE password' = p1 /\ pc' = to /\ prompt' = Round(prompt, p1, p2)

\* ---- main: Command::Hsm with HsmCommand::Initialize
MGetPasswd ==
    /\ path = "cmd" /\ pc = "m_get_passwd"
    /\ \E p \in get_passwd(cfg.auth_id, cfg.command) :
          IF p.value = IoError
          THEN pc' = "err" /\ UNCHANGED <<passwd, cred>>
          ELSE /\ passwd' = p.value /\ cred' = [cred EXCEPT !.from = p.from]
               /\ pc' = "m_hsm_new"
    /\ UNCHANGED <<path, cfg, hsmVars, procVars, printVars, restoreVars, printedPasswd>>
    /\ UNCHANGED <<hsmOps, gk, bt, ca, sg, prompt, log>>

\* let auth_id = get_auth_id(auth_id, &command); Hsm::new(auth_id, &passwd, ..)?
\* and the match on the command: Initialize goes on below, the other commands
\* are handed to the Hsm
MHsmNew ==
    /\ path = "cmd" /\ pc = "m_hsm_new"
    /\ LET id == get_auth_id(cfg.auth_id, cfg.command)
       IN  /\ cred' = [cred EXCEPT !.auth_id = {id}]
           /\ \E ok \in BOOLEAN :
                 /\ Hsm_new(id, passwd, ok)
                 /\ pc' = IF ~ok THEN "err"
                          ELSE IF cfg.command = "Initialize" THEN "m_split"
                          ELSE "m_dispatch"
    /\ UNCHANGED <<path, cfg, wrapObj, defaultAuth, adminAuth, hsmRandom, procVars,
                   printVars, restoreVars, passwd, printedPasswd>>
    /\ UNCHANGED <<hsmOps, gk, bt, ca, sg, prompt, log>>

\* if hsm.backup { hsm.new_split_wrap(&print_dev)?; }
MNewSplitWrap ==
    /\ path = "cmd" /\ pc = "m_split"
    /\ IF ~cfg.no_backup
       THEN \E ok \in BOOLEAN :
               /\ new_split_wrap(ok)
               /\ pc' = IF ok THEN "m_new_passwd" ELSE "err"
       ELSE pc' = "m_new_passwd" /\ UNCHANGED <<hsmRandom, wrapObj, printVars>>
    /\ UNCHANGED <<path, cfg, defaultAuth, adminAuth, sessions, procVars, restoreVars,
                   mainVars>>
    /\ UNCHANGED <<hsmOps, gk, bt, ca, sg, prompt, log>>

MNewPasswd ==
    /\ path = "cmd" /\ pc = "m_new_passwd"
    /\ get_new_passwd(~cfg.challenge, IF cfg.challenge THEN "m_attest" ELSE "m_print")
    /\ UNCHANGED <<path, cfg, hsmVars, wrap_key, retId, personalize_ret, attestCert,
                   outFiles, printVars, restoreVars, mainVars>>
    /\ UNCHANGED <<hsmOps, gk, bt, ca, sg, log>>

\* mutant: a failed print_password does not end the command
MPrintPassword_IgnoreError ==
    /\ path = "cmd" /\ pc = "m_print"
    /\ \E ok \in BOOLEAN :
          /\ print_password(password, ok)
          /\ pc' = "m_attest"
    /\ UNCHANGED <<path, cfg, hsmVars, procVars, printVars, restoreVars, passwd, cred>>
    /\ UNCHANGED <<hsmOps, gk, bt, ca, sg, prompt, log>>

MPrintPassword ==
    /\ path = "cmd" /\ pc = "m_print"
    /\ \E ok \in BOOLEAN :
          /\ print_password(password, ok)
          /\ pc' = IF ok THEN "m_attest" ELSE "err"
    /\ UNCHANGED <<path, cfg, hsmVars, procVars, printVars, restoreVars, passwd, cred>>
    /\ UNCHANGED <<hsmOps, gk, bt, ca, sg, prompt, log>>

MDumpAttest ==
    /\ path = "cmd" /\ pc = "m_attest"
    /\ \E ok \in BOOLEAN :
          /\ dump_attest_cert(ok)
          /\ pc' = IF ok THEN "m_replace" ELSE "err"
    /\ UNCHANGED <<path, cfg, hsmVars, wrap_key, retId, password, personalize_ret,
                   printVars, restoreVars, mainVars>>
    /\ UNCHANGED <<hsmOps, gk, bt, ca, sg, prompt, log>>

MReplaceDefaultAuth ==
    /\ path = "cmd" /\ pc = "m_replace"
    /\ \E ok \in BOOLEAN :
          /\ replace_default_auth(password, ok)
          /\ pc' = IF ok THEN "done" ELSE "err"
    /\ UNCHANGED <<path, cfg, wrapObj, hsmRandom, sessions, wrap_key, retId, password,
                   attestCert, outFiles, printVars, restoreVars, mainVars>>
    /\ UNCHANGED <<hsmOps, gk, bt, ca, sg, prompt, log>>

\* ---- `hsm restore`
\* hsm.restore_wrap()?: the wrap key is recombined from the shares and put
\* back into the device
MRestoreWrap ==
    /\ path = "cmd" /\ pc = "m_dispatch" /\ cfg.command = "Restore"
    /\ \/ \E seed \in 1..NumSeeds :
            /\ rkey' = PseudoRandom(seed, KEY_LEN)
            /\ rWrapObj' = {RestoreWrapObject(rkey')}
            /\ pc' = "m_restore"
       \/ pc' = "err" /\ UNCHANGED <<rkey, rWrapObj>>
    /\ UNCHANGED <<path, cfg, hsmVars, procVars, printVars, rshares, mainVars>>
    /\ Issue("restore_wrap", pc' # "err")
    /\ UNCHANGED <<gk, bt, ca, sg, prompt, log>>

\* mutant: a failed hsm::restore does not end the command
MRestoreObjects_IgnoreError ==
    /\ path = "cmd" /\ pc = "m_restore"
    /\ \E ok \in BOOLEAN :
          /\ adminAuth' \in IF ok THEN {"pwA"} ELSE {adminAuth, "pwA"}
          /\ Issue("restore", ok)
    /\ pc' = "m_delete"
    /\ UNCHANGED <<path, cfg, wrapObj, defaultAuth, hsmRandom, sessions, procVars,
                   printVars, restoreVars, mainVars>>
    /\ UNCHANGED <<gk, bt, ca, sg, prompt, log>>

\* oks::hsm::restore(&hsm.client, &hsm.state_dir)?: the backed-up objects,
\* the admin credential among them, are imported under the wrap key; a
\* failure may come after some of them were imported
MRestoreObjects ==
    /\ path = "cmd" /\ pc = "m_restore"
    /\ \E ok \in BOOLEAN :
          /\ adminAuth' \in IF ok THEN {"pwA"} ELSE {adminAuth, "pwA"}
          /\ pc' = IF ok THEN "m_delete" ELSE "err"
    /\ UNCHANGED <<path, cfg, wrapObj, defaultAuth, hsmRandom, sessions, procVars,
                   printVars, restoreVars, mainVars>>
    /\ Issue("restore", pc' # "err")
    /\ UNCHANGED <<gk, bt, ca, sg, prompt, log>>

\* info!("Deleting default authentication key");
\* oks::hsm::delete(&hsm.client, 1, Type::AuthenticationKey)
MDeleteDefault ==
    /\ path = "cmd" /\ pc = "m_delete"
    /\ \/ defaultAuth /\ defaultAuth' = FALSE /\ pc' = "done"
       \/ pc' = "err" /\ UNCHANGED defaultAuth
    /\ log' = log \cup {[level |-> "info", what |-> "Deleting default authentication key"]}
    /\ UNCHANGED <<path, cfg, wrapObj, adminAuth, hsmRandom, sessions, procVars,
                   printVars, restoreVars, mainVars>>
    /\ Issue("delete", pc' # "err")
    /\ UNCHANGED <<gk, bt, ca, sg, prompt>>

\* ---- do_ceremony
CHsmNew1 ==
    /\ path = "ceremony" /\ pc = "c_hsm_new1"
    /\ passwd' = DEFAULT_PASSWORD
    /\ \E ok \in BOOLEAN :
          /\ Hsm_new(1, DEFAULT_PASSWORD, ok)
          /\ pc' = IF ok THEN "c_split" ELSE "err"
    /\ UNCHANGED <<path, cfg, wrapObj, defaultAuth, adminAuth, hsmRandom, procVars,
                   printVars, restoreVars, printedPasswd, cred>>
    /\ UNCHANGED <<hsmOps, gk, bt, ca, sg, prompt, log>>

\* mutant: the attestation certificate is not collected before the credential
\* is replaced
CNewSplitWrap_SkipAttest ==
    /\ path = "ceremony" /\ pc = "c_split"
    /\ \E ok \in BOOLEAN :
          /\ new_split_wrap(ok)
          /\ pc' = IF ok THEN "c_new_passwd" ELSE "err"
          /\ sessions' = IF ok THEN sessions ELSE {}
    /\ UNCHANGED <<path, cfg, defaultAuth, adminAuth, procVars, restoreVars, mainVars>>
    /\ UNCHANGED <<hsmOps, gk, bt, ca, sg, prompt, log>>

CNewSplitWrap ==
    /\ path = "ceremony" /\ pc = "c_split"
    /\ \E ok \in BOOLEAN :
          /\ new_split_wrap(ok)
          /\ pc' = IF ok THEN "c_attest" ELSE "err"
          /\ sessions' = IF ok THEN sessions ELSE {}
    /\ UNCHANGED <<path, cfg, defaultAuth, adminAuth, procVars, restoreVars, mainVars>>
    /\ UNCHANGED <<hsmOps, gk, bt, ca, sg, prompt, log>>

CDumpAttest ==
    /\ path = "ceremony" /\ pc = "c_attest"
    /\ \E ok \in BOOLEAN :
          /\ dump_attest_cert(ok)
          /\ pc' = IF ok THEN "c_new_passwd" ELSE "err"
          /\ sessions' = IF ok THEN sessions ELSE {}
    /\ UNCHANGED <<path, cfg, wrapObj, defaultAuth, adminAuth, hsmRandom, wrap_key,
                   retId, password, personalize_ret, printVars, restoreVars, mainVars>>
    /\ UNCHANGED <<hsmOps, gk, bt, ca, sg, prompt, log>>

CNewPasswd ==
    /\ path = "ceremony" /\ pc = "c_new_passwd"
    /\ get_new_passwd(~cfg.challenge, IF cfg.challenge THEN "c_replace" ELSE "c_print")
    /\ sessions' = IF pc' = "err" THEN {} ELSE sessions
    /\ UNCHANGED <<path, cfg, wrapObj, defaultAuth, adminAuth, hsmRandom, wrap_key,
                   retId, personalize_ret, attestCert, outFiles, printVars, restoreVars,
                   mainVars>>
    /\ UNCHANGED <<hsmOps, gk, bt, ca, sg, log>>

CPrintPassword ==
    /\ path = "ceremony" /\ pc = "c_print"
    /\ \E ok \in BOOLEAN :
          /\ print_password(password, ok)
          /\ pc' = IF ok THEN "c_replace" ELSE "err"
          /\ sessions' = IF ok THEN sessions ELSE {}
    /\ UNCHANGED <<path, cfg, wrapObj, defaultAuth, adminAuth, hsmRandom, procVars,
                   printVars, restoreVars, passwd, cred>>
    /\ UNCHANGED <<hsmOps, gk, bt, ca, sg, prompt, log>>

\* mutant: the first Hsm stays alive after replace_default_auth
CReplaceDefaultAuth_KeepSession ==
    /\ path = "ceremony" /\ pc = "c_replace"
    /\ \E ok \in BOOLEAN :
          /\ replace_default_auth(password, ok)
          /\ pc' = IF ok THEN "c_hsm_new2" ELSE "err"
    /\ UNCHANGED <<path, cfg, wrapObj, hsmRandom, sessions, wrap_key, retId, password,
                   attestCert, outFiles, printVars, restoreVars, mainVars>>
    /\ UNCHANGED <<hsmOps, gk, bt, ca, sg, prompt, log>>

\* replace_default_auth, then the first Hsm goes out of scope
CReplaceDefaultAuth ==
    /\ path = "ceremony" /\ pc = "c_replace"
    /\ \E ok \in BOOLEAN :
          /\ replace_default_auth(password, ok)
          /\ pc' = IF ok THEN "c_hsm_new2" ELSE "err"
    /\ sessions' = {}
    /\ UNCHANGED <<path, cfg, wrapObj, hsmRandom, wrap_key, retId, password,
                   attestCert, outFiles, printVars, restoreVars, mainVars>>
    /\ UNCHANGED <<hsmOps, gk, bt, ca, sg, prompt, log>>

CHsmNew2 ==
    /\ path = "ceremony" /\ pc = "c_hsm_new2"
    /\ \E ok \in BOOLEAN :
          /\ Hsm_new(2, password, ok)
          /\ pc' = IF ok THEN "c_generate" ELSE "err"
    /\ UNCHANGED <<path, cfg, wrapObj, defaultAuth, adminAuth, hsmRandom, procVars,
                   printVars, restoreVars, mainVars>>
    /\ UNCHANGED <<hsmOps, gk, bt, ca, sg, prompt, log>>

\* hsm.generate(key_spec), then the second Hsm goes out of scope
CGenerate ==
    /\ path = "ceremony" /\ pc = "c_generate"
    /\ \E ok \in BOOLEAN : pc' = IF ok THEN "c_init_ca" ELSE "err"
    /\ sessions' = {}
    /\ UNCHANGED <<path, cfg, wrapObj, defaultAuth, adminAuth, hsmRandom, procVars,
                   printVars, restoreVars, mainVars>>
    /\ UNCHANGED <<hsmOps, gk, bt, ca, sg, prompt, log>>

\* env::set_var(ENV_PASSWORD, &passwd_new); initialize_all_ca(..)?
CInitAllCa ==
    /\ path = "ceremony" /\ pc = "c_init_ca"
    /\ cfg' = [cfg EXCEPT !.env_password = password]
    /\ \E ok \in BOOLEAN : pc' = IF ok THEN "c_sign_all" ELSE "err"
    /\ UNCHANGED <<path, hsmVars, procVars, printVars, restoreVars, mainVars>>
    /\ UNCHANGED <<hsmOps, gk, bt, ca, sg, prompt, log>>

CSignAll ==
    /\ path = "ceremony" /\ pc = "c_sign_all"
    /\ \E ok \in BOOLEAN : pc' = IF ok THEN "done" ELSE "err"
    /\ UNCHANGED <<path, cfg, hsmVars, procVars, printVars, restoreVars, mainVars>>
    /\ UNCHANGED <<hsmOps, gk, bt, ca, sg, prompt, log>>

\* ------------------------------------------------------------ CA (lib.rs)
\* number of CsrSpec files ca_sign may find
MaxCsrSpecs == 2

CaPurposes == {"ProductionCodeSigningCA", "DevelopmentCodeSigningCA", "Identity"}
Purposes == CaPurposes \cup {"ProductionCodeSigning", "DevelopmentCodeSigning"}

\* mutant: the development CA signs with the production profile
LeafPurpose_DevAsProduction(purpose) ==
    CASE purpose = "ProductionCodeSigningCA" -> "ProductionCodeSigning"
      [] purpose = "DevelopmentCodeSigningCA" -> "ProductionCodeSigning"
      [] purpose = "Identity" -> "Identity"
      [] OTHER -> "BadPurpose"

\* purpose of the CA key -> purpose (extension profile) of the signed key
LeafPurpose(purpose) ==
    CASE purpose = "ProductionCodeSigningCA" -> "ProductionCodeSigning"
      [] purpose = "DevelopmentCodeSigningCA" -> "DevelopmentCodeSigning"
      [] purpose = "Identity" -> "Identity"
      [] OTHER -> "BadPurpose"

CaIdle ==
    [prog |-> "none", pc |-> "idle", purpose |-> "Identity",
     cwd |-> "orig", pwd |-> None, switched |-> FALSE,
     connector |-> "none", ret |-> None, csrRet |-> None,
     engineFailed |-> FALSE, envAuth |-> FALSE, files |-> {},
     pathsLeft |-> 0, profile |-> None, caState |-> "absent"]

\* the CA state a directory of this label already holds (serial counter,
\* index.txt ledger, openssl.cnf, key.spec, root certificate) after a write
\* into that directory
Overwritten(caState) == IF caState = "intact" THEN "overwritten" ELSE caState

\* the function returns err (or "Ok") to its caller
CaReturn(c, r) == [c EXCEPT !.pc = "returned", !.ret = r]

\* connector.kill(): the connector after the call
Killed(c, ok) == IF ok THEN [c EXCEPT !.connector = "killed"] ELSE c

\* mutant: ca_initialize accepts every purpose
CiReadSpec_NoPurposeCheck ==
    /\ ca.prog = "ca_initialize" /\ ca.pc = "ci_read_spec"
    /\ \/ ca' = CaReturn(ca, "IoError")
       \/ ca' = [ca EXCEPT !.pc = "ci_passwd"]
    /\ UNCHANGED <<hsmSide, sg>>

\* ---- ca_initialize
CiReadSpec ==
    /\ ca.prog = "ca_initialize" /\ ca.pc = "ci_read_spec"
    /\ \/ ca' = CaReturn(ca, "IoError")
       \/ ca' = IF ca.purpose \in CaPurposes
                THEN [ca EXCEPT !.pc = "ci_passwd"]
                ELSE CaReturn(ca, "BadPurpose")
    /\ UNCHANGED <<hsmSide, sg>>

CiPasswdToEnv ==
    /\ ca.prog = "ca_initialize" /\ ca.pc = "ci_passwd"
    /\ \/ ca' = [ca EXCEPT !.envAuth = TRUE, !.pc = "ci_current_dir"]
       \/ ca' = CaReturn(ca, "IoError")
    /\ UNCHANGED <<hsmSide, sg>>

CiCurrentDir ==
    /\ ca.prog = "ca_initialize" /\ ca.pc = "ci_current_dir"
    /\ \/ ca' = [ca EXCEPT !.pwd = ca.cwd, !.pc = "ci_create_dir"]
       \/ ca' = CaReturn(ca, "IoError")
    /\ UNCHANGED <<hsmSide, sg>>

\* mutant: an existing directory is accepted (create_dir_all)
CiCreateDir_ExistingOk ==
    /\ ca.prog = "ca_initialize" /\ ca.pc = "ci_create_dir"
    /\ \/ ca' = [ca EXCEPT !.files = @ \cup {"ca_dir"}, !.pc = "ci_set_current_dir"]
       \/ ca' = CaReturn(ca, "IoError")
    /\ UNCHANGED <<hsmSide, sg>>

\* fs::create_dir(&ca_dir)?: an existing directory is an error (AlreadyExists)
CiCreateDir ==
    /\ ca.prog = "ca_initialize" /\ ca.pc = "ci_create_dir"
    /\ \/ /\ ca.caState = "absent"
          /\ ca' = [ca EXCEPT !.files = @ \cup {"ca_dir"}, !.pc = "ci_set_current_dir"]
       \/ ca' = CaReturn(ca, "IoError")
    /\ UNCHANGED <<hsmSide, sg>>

CiSetCurrentDir ==
    /\ ca.prog = "ca_initialize" /\ ca.pc = "ci_set_current_dir"
    /\ \/ ca' = [ca EXCEPT !.cwd = "ca_dir", !.switched = TRUE, !.pc = "ci_write_spec"]
       \/ ca' = CaReturn(ca, "IoError")
    /\ UNCHANGED <<hsmSide, sg>>

CiWriteKeySpec ==
    /\ ca.prog = "ca_initialize" /\ ca.pc = "ci_write_spec"
    /\ \/ ca' = [ca EXCEPT !.files = @ \cup {"key.spec"}, !.pc = "ci_bootstrap",
                           !.caState = Overwritten(@)]
       \/ ca' = CaReturn(ca, "IoError")
    /\ UNCHANGED <<hsmSide, sg>>

\* bootstrap_ca(&spec)?
CiBootstrapCa ==
    /\ ca.prog = "ca_initialize" /\ ca.pc = "ci_bootstrap"
    /\ \/ ca' = [ca EXCEPT !.files = @ \cup {"crl", "newcerts", "private", "index.txt",
                                              "serial", "openssl.cnf"},
                           !.pc = "ci_spawn", !.caState = Overwritten(@)]
       \/ ca' = CaReturn(ca, "IoError")
    /\ UNCHANGED <<hsmSide, sg>>

CiSpawnConnector ==
    /\ ca.prog = "ca_initialize" /\ ca.pc = "ci_spawn"
    /\ \/ ca' = [ca EXCEPT !.connector = "running", !.pc = "ci_tmpdir"]
       \/ ca' = CaReturn(ca, "IoError")
    /\ UNCHANGED <<hsmSide, sg>>

CiTempDir ==
    /\ ca.prog = "ca_initialize" /\ ca.pc = "ci_tmpdir"
    /\ \/ ca' = [ca EXCEPT !.pc = "ci_req"]
       \/ ca' = CaReturn(ca, "IoError")
    /\ UNCHANGED <<hsmSide, sg>>

\* a failed signing-engine step of ca_initialize: connector.kill()?; return Err(..)
CiEngineFailed(c) ==
    {IF ok THEN CaReturn(Killed(c, ok), "SelfCertGenFail")
           ELSE CaReturn(Killed(c, ok), "KillError") : ok \in BOOLEAN}

\* openssl req -new ..: the certificate request
CiOpensslReq ==
    /\ ca.prog = "ca_initialize" /\ ca.pc = "ci_req"
    /\ \/ ca' = CaReturn(ca, "IoError")
       \/ ca' \in CiEngineFailed([ca EXCEPT !.engineFailed = TRUE])
       \/ ca' = [ca EXCEPT !.files = @ \cup {"csr.pem"}, !.pc = "ci_selfsign"]
    /\ UNCHANGED <<hsmSide, sg>>

\* openssl ca -selfsign ..: the root certificate
CiOpensslSelfSign ==
    /\ ca.prog = "ca_initialize" /\ ca.pc = "ci_selfsign"
    /\ LET c == [ca EXCEPT !.profile = ca.purpose]
       IN  \/ ca' = CaReturn(c, "IoError")
           \/ ca' \in CiEngineFailed([c EXCEPT !.engineFailed = TRUE])
           \/ ca' = [c EXCEPT !.files = @ \cup {"ca.cert.pem"}, !.pc = "ci_kill"]
    /\ UNCHANGED <<hsmSide, sg>>

CiKill ==
    /\ ca.prog = "ca_initialize" /\ ca.pc = "ci_kill"
    /\ \/ ca' = [Killed(ca, TRUE) EXCEPT !.pc = "ci_copy"]
       \/ ca' = CaReturn(Killed(ca, FALSE), "KillError")
    /\ UNCHANGED <<hsmSide, sg>>

CiCopyCert ==
    /\ ca.prog = "ca_initialize" /\ ca.pc = "ci_copy"
    /\ \/ ca' = [ca EXCEPT !.files = @ \cup {"cert.pem"}, !.pc = "ci_restore_dir"]
       \/ ca' = CaReturn(ca, "IoError")
    /\ UNCHANGED <<hsmSide, sg>>

\* env::set_current_dir(pwd)?
CiRestoreDir ==
    /\ ca.prog = "ca_initialize" /\ ca.pc = "ci_restore_dir"
    /\ \/ ca' = [ca EXCEPT !.cwd = ca.pwd, !.pc = "ci_move"]
       \/ ca' = CaReturn(ca, "IoError")
    /\ UNCHANGED <<hsmSide, sg>>

CiMoveOut ==
    /\ ca.prog = "ca_initialize" /\ ca.pc = "ci_move"
    /\ \/ ca' = CaReturn(ca, "Ok")
       \/ ca' = CaReturn(ca, "IoError")
    /\ UNCHANGED <<hsmSide, sg>>

\* ---- ca_sign
\* canonicalize the path and list the CsrSpec files
CsListSpecs ==
    /\ ca.prog = "ca_sign" /\ ca.pc = "cs_list"
    /\ \/ ca' = [ca EXCEPT !.pc = "cs_spawn"]
       \/ \E e \in {"IoError", "BadSpecDirectory"} : ca' = CaReturn(ca, e)
    /\ UNCHANGED <<hsmSide, sg>>

CsSpawnConnector ==
    /\ ca.prog = "ca_sign" /\ ca.pc = "cs_spawn"
    /\ \/ ca' = [ca EXCEPT !.connector = "running", !.pc = "cs_passwd"]
       \/ ca' = CaReturn(ca, "IoError")
    /\ UNCHANGED <<hsmSide, sg>>

CsPasswdToEnv ==
    /\ ca.prog = "ca_sign" /\ ca.pc = "cs_passwd"
    /\ \/ ca' = [ca EXCEPT !.envAuth = TRUE, !.pc = "cs_tmpdir"]
       \/ ca' = CaReturn(ca, "IoError")
    /\ UNCHANGED <<hsmSide, sg>>

CsTempDir ==
    /\ ca.prog = "ca_sign" /\ ca.pc = "cs_tmpdir"
    /\ \/ ca' = [ca EXCEPT !.pc = "cs_next"]
       \/ ca' = CaReturn(ca, "IoError")
    /\ UNCHANGED <<hsmSide, sg>>

\* for path in paths { ca_sign_csrspec(..) }
CsNextPath ==
    /\ ca.prog = "ca_sign" /\ ca.pc = "cs_next"
    /\ ca' = IF ca.pathsLeft = 0
             THEN [ca EXCEPT !.pc = "cs_kill"]
             ELSE [ca EXCEPT !.pathsLeft = @ - 1, !.pc = "ss_read",
                             !.csrRet = None, !.switched = FALSE, !.pwd = None]
    /\ UNCHANGED <<hsmSide, sg>>

\* if let Err(e) = ca_sign_csrspec(..) { let _ = connector.kill(); return Err(e); }
CsCsrReturned ==
    /\ ca.prog = "ca_sign" /\ ca.pc = "cs_csr_ret"
    /\ IF ca.csrRet = "Ok"
       THEN ca' = [ca EXCEPT !.pc = "cs_next"]
       ELSE \E ok \in BOOLEAN : ca' = CaReturn(Killed(ca, ok), ca.csrRet)
    /\ UNCHANGED <<hsmSide, sg>>

CsKill ==
    /\ ca.prog = "ca_sign" /\ ca.pc = "cs_kill"
    /\ \/ ca' = CaReturn(Killed(ca, TRUE), "Ok")
       \/ ca' = CaReturn(Killed(ca, FALSE), "KillError")
    /\ UNCHANGED <<hsmSide, sg>>

\* ---- ca_sign_csrspec
\* ca_sign_csrspec returns r to ca_sign
CsrReturn(c, r) == [c EXCEPT !.pc = "cs_csr_ret", !.csrRet = r]

\* the CsrSpec, then the key.spec of the CA its label names
SsReadSpecs ==
    /\ ca.prog = "ca_sign" /\ ca.pc = "ss_read"
    /\ \/ \E pu \in Purposes : ca' = [ca EXCEPT !.purpose = pu, !.pc = "ss_purpose"]
       \/ ca' = CsrReturn(ca, "IoError")
    /\ UNCHANGED <<hsmSide, sg>>

SsMapPurpose ==
    /\ ca.prog = "ca_sign" /\ ca.pc = "ss_purpose"
    /\ ca' = IF LeafPurpose(ca.purpose) = "BadPurpose"
             THEN CsrReturn(ca, "BadPurpose")
             ELSE [ca EXCEPT !.profile = LeafPurpose(ca.purpose), !.pc = "ss_canon"]
    /\ UNCHANGED <<hsmSide, sg>>

SsCanonPublish ==
    /\ ca.prog = "ca_sign" /\ ca.pc = "ss_canon"
    /\ \/ ca' = [ca EXCEPT !.pc = "ss_current_dir"]
       \/ ca' = CsrReturn(ca, "IoError")
    /\ UNCHANGED <<hsmSide, sg>>

SsCurrentDir ==
    /\ ca.prog = "ca_sign" /\ ca.pc = "ss_current_dir"
    /\ \/ ca' = [ca EXCEPT !.pwd = ca.cwd, !.pc = "ss_set_current_dir"]
       \/ ca' = CsrReturn(ca, "IoError")
    /\ UNCHANGED <<hsmSide, sg>>

SsSetCurrentDir ==
    /\ ca.prog = "ca_sign" /\ ca.pc = "ss_set_current_dir"
    /\ \/ ca' = [ca EXCEPT !.cwd = "ca_dir", !.switched = TRUE, !.pc = "ss_write_csr"]
       \/ ca' = CsrReturn(ca, "IoError")
    /\ UNCHANGED <<hsmSide, sg>>

SsWriteCsr ==
    /\ ca.prog = "ca_sign" /\ ca.pc = "ss_write_csr"
    /\ \/ ca' = [ca EXCEPT !.files = @ \cup {"tmp.csr.pem"}, !.pc = "ss_openssl"]
       \/ ca' = CsrReturn(ca, "IoError")
    /\ UNCHANGED <<hsmSide, sg>>

\* openssl ca -batch ..: sign the CSR
SsOpensslCa ==
    /\ ca.prog = "ca_sign" /\ ca.pc = "ss_openssl"
    /\ \/ ca' = CsrReturn(ca, "IoError")
       \/ ca' = CsrReturn([ca EXCEPT !.engineFailed = TRUE], "CertGenFail")
       \/ ca' = [ca EXCEPT !.files = @ \cup {"cert.pem"}, !.pc = "ss_restore_dir"]
    /\ UNCHANGED <<hsmSide, sg>>

\* std::env::set_current_dir(pwd)?; Ok(())
SsRestoreDir ==
    /\ ca.prog = "ca_sign" /\ ca.pc = "ss_restore_dir"
    /\ \/ ca' = CsrReturn([ca EXCEPT !.cwd = ca.pwd], "Ok")
       \/ ca' = CsrReturn(ca, "IoError")
    /\ UNCHANGED <<hsmSide, sg>>

\* ------------------------------------------------------------ ShareGetter
\* bytes of a Share (hsm::SHARE_LEN) and characters of the line that holds one
SHARE_LEN == 33
LINE_LEN == 67

\* stdin lines a run starts with at most, get_share calls made at most
MaxStdinLines == 3
MaxCalls == 7
\* share image files in the directory at most
MaxIsoFiles == 5

\* a Share: its number and whether the verifier's commitments match it
NoShare == [n |-> 0, genuine |-> FALSE]
GoodShare(i) == [n |-> i, genuine |-> TRUE]
\* a share of the right size that is none of the dealt ones
BadShare == [n |-> 1, genuine |-> FALSE]

\* self.verifier.verify(&share)
Verify_AcceptAll(share) == TRUE
Verify(share) == share.genuine

\* Result<Option<Share>>
RetNone == [kind |-> "NotReturned", share |-> NoShare]
OkSome(share) == [kind |-> "Some", share |-> share]
OkEnd == [kind |-> "End", share |-> NoShare]
RetErr == [kind |-> "Err", share |-> NoShare]

\* A line on stdin, by the characters before its newline: hex digits, other
\* characters, whitespace; `first` is the class of its first character and
\* `share` what the line decodes to while it is intact.
Line(hex, other, ws, first, share) ==
    [hex |-> hex, other |-> other, ws |-> ws, first |-> first, share |-> share]
Count(line) == line.hex + line.other + line.ws + 1
NotHexLine == Line(1, 6, 0, "other", NoShare)          \* "not-hex"
ShortHexLine == Line(64, 0, 0, "hex", NoShare)         \* 64 hex digits
LongHexLine == Line(67, 0, 0, "hex", NoShare)          \* 67 hex digits
NotHex67Line == Line(65, 1, 0, "other", NoShare)       \* right size, one non-hex
SpacedHexLine == Line(64, 0, 2, "ws", NoShare)         \* right size, 32 bytes
BadShareLine == Line(2 * SHARE_LEN, 0, 0, "hex", BadShare)
GoodShareLine(i) == Line(2 * SHARE_LEN, 0, 0, "hex", GoodShare(i))
EnterLine == Line(0, 0, 0, "nl", NoShare)              \* a bare key press
\* bytes that are no UTF-8: read_line consumes them and returns Err
InvalidLine == Line(0, 2, 0, "invalid", NoShare)
StdinLines ==
    {NotHexLine, ShortHexLine, LongHexLine, NotHex67Line, SpacedHexLine, BadShareLine,
     EnterLine, InvalidLine, GoodShareLine(1), GoodShareLine(2)}

\* io::stdin().read(&mut [0u8]): one byte leaves the stream, the first
\* character of the next line (the whole line when it is a bare newline);
\* at end of input nothing is read
ReadByte(stdin) ==
    IF stdin = <<>> THEN stdin
    ELSE LET l == Head(stdin)
             cut == [l EXCEPT !.hex = IF l.first = "hex" THEN @ - 1 ELSE @,
                              !.other = IF l.first \in {"other", "invalid"} THEN @ - 1
                                        ELSE @,
                              !.ws = IF l.first = "ws" THEN @ - 1 ELSE @,
                              !.share = NoShare]
             rest == [cut EXCEPT !.first = IF l.first = "invalid" /\ cut.other > 0
                                           THEN "invalid"
                                           ELSE IF cut.other > 0 THEN "other"
                                           ELSE IF cut.hex > 0 THEN "hex"
                                           ELSE IF cut.ws > 0 THEN "ws" ELSE "nl"]
         IN  IF l.first = "nl" THEN Tail(stdin) ELSE <<rest>> \o Tail(stdin)

\* hex::decode of the line without its whitespace: the number of bytes, or -1
HexDecode(line) ==
    IF line.other > 0 \/ line.hex % 2 = 1 THEN -1 ELSE line.hex \div 2

\* Share::try_from(&share_vec[..]): {} is Err
ShareTryFrom(line) ==
    IF HexDecode(line) # SHARE_LEN THEN {}
    ELSE {IF line.ws = 0 /\ line.share # NoShare THEN line.share ELSE BadShare}

\* ShareGetter::new(share_method, ..) with the input its method reads:
\* the lines on stdin, or the number of share_<i>-of-5.iso files
NewShareGetter(method, stdin, isos) ==
    [share_method |-> method, share_globs |-> {}, isos |-> isos,
     stdin |-> stdin, input |-> stdin, pc |-> "idle", ret |-> RetNone,
     returned |-> <<>>, flushFailed |-> FALSE]
SgIdle == NewShareGetter("none", <<>>, 0)

\* get_share returns r
SgReturn(g, r) == [g EXCEPT !.pc = "idle", !.ret = r, !.returned = Append(@, r)]

\* `continue`: the loop prompts again
Reprompt_ReturnsEnd(g) == SgReturn(g, OkEnd)
Reprompt(g) == [g EXCEPT !.pc = "stdin_loop"]


\* "Press any key ...": the message is flushed and one byte is read from stdin
PressAnyKey(g) ==
    {[g EXCEPT !.pc = "flush_err", !.flushFailed = TRUE],   \* io::stdout().flush()?
     [g EXCEPT !.pc = "panic"],                              \* read(..).unwrap()
     [g EXCEPT !.stdin = ReadByte(@)]}

\* where the loop is after the key press: h is the getter after it, next the
\* getter when flush and read went well
AfterKey(h, next) ==
    IF h.pc = "flush_err" THEN SgReturn(h, RetErr)
    ELSE IF h.pc = "panic" THEN h
    ELSE next

\* get_share with ShareMethod::Stdin enters the loop of _get_stdin_share
SgStdinCall ==
    /\ sg.share_method = "Stdin" /\ sg.pc = "idle"
    /\ Len(sg.returned) < MaxCalls
    /\ sg' = [sg EXCEPT !.pc = "stdin_loop", !.ret = RetNone]
    /\ UNCHANGED <<hsmSide, ca>>

\* one iteration of the loop of _get_stdin_share
SgStdinRound ==
    /\ sg.share_method = "Stdin" /\ sg.pc = "stdin_loop"
    /\ \/ \* the prompt cannot be flushed
          sg' = SgReturn([sg EXCEPT !.flushFailed = TRUE], RetErr)
       \/ \* Ok(0): end of input, prompt again
          sg.stdin = <<>> /\ sg' = Reprompt(sg)
       \/ /\ sg.stdin # <<>>
          /\ LET line == Head(sg.stdin)
                 g == [sg EXCEPT !.stdin = Tail(@)]
             IN  IF line.first = "invalid" \/ Count(line) # LINE_LEN
                 THEN \* Err(e) from read_line, or a line of another length:
                      \* message, key press, prompt again
                      \E h \in PressAnyKey(g) : sg' = AfterKey(h, Reprompt(h))
                 ELSE IF HexDecode(line) = -1 \/ ShareTryFrom(line) = {}
                 THEN sg' = Reprompt(g)
                 ELSE \E share \in ShareTryFrom(line) :
                         \E h \in PressAnyKey(g) :
                            sg' = AfterKey(h, IF Verify(share)
                                              THEN SgReturn(h, OkSome(share))
                                              ELSE Reprompt(h))
    /\ UNCHANGED <<hsmSide, ca>>

\* glob::glob(dir/share_*-of-*.iso): the files share_1-of-5.iso .. in the order
\* of their names
Glob_Reversed(isos) == [i \in 1..isos |-> isos + 1 - i]
Glob(isos) == [i \in 1..isos |-> i]

\* Paths::next(): the cursor after an item was taken
PathsNext_NoAdvance(cursor) == cursor
PathsNext(cursor) == cursor + 1

\* Cdr::new(Some(iso)), mount, read_share: the share the image file holds
ReadShareFile(file) == GoodShare(file)

\* mutant: the item is taken from the iterator only when the share was read
SgIsoGetShare_RetryFailed ==
    /\ sg.share_method = "Iso" /\ sg.pc = "idle"
    /\ Len(sg.returned) < MaxCalls
    /\ \/ sg.share_globs = {} /\ sg' = SgReturn(sg, RetErr)
       \/ LET g == IF sg.share_globs = {} THEN [sg EXCEPT !.share_globs = {1}] ELSE sg
              cursor == CHOOSE c \in g.share_globs : TRUE
              files == Glob(g.isos)
          IN  IF cursor > Len(files)
              THEN sg' = SgReturn([g EXCEPT !.share_globs = {}], OkEnd)
              ELSE LET n == [g EXCEPT !.share_globs = {PathsNext(cursor)}]
                   IN  \/ sg' = SgReturn(n, OkSome(ReadShareFile(files[cursor])))
                       \/ sg' = SgReturn(g, RetErr)
    /\ UNCHANGED <<hsmSide, ca>>

\* get_share with ShareMethod::Iso: _get_iso_share
SgIsoGetShare ==
    /\ sg.share_method = "Iso" /\ sg.pc = "idle"
    /\ Len(sg.returned) < MaxCalls
    /\ \/ \* glob::glob(path)? fails
          sg.share_globs = {} /\ sg' = SgReturn(sg, RetErr)
       \/ LET g == IF sg.share_globs = {} THEN [sg EXCEPT !.share_globs = {1}] ELSE sg
              cursor == CHOOSE c \in g.share_globs : TRUE
              files == Glob(g.isos)
          IN  IF cursor > Len(files)
              THEN sg' = SgReturn([g EXCEPT !.share_globs = {}], OkEnd)
              ELSE LET n == [g EXCEPT !.share_globs = {PathsNext(cursor)}]
                   IN  \/ sg' = SgReturn(n, OkSome(ReadShareFile(files[cursor])))
                       \/ \* a GlobError, or Cdr::new / mount / read_share fails
                          sg' = SgReturn(n, RetErr)
    /\ UNCHANGED <<hsmSide, ca>>

\* get_share with ShareMethod::Cdrom: _get_cdrom_share is todo!()
SgCdromGetShare ==
    /\ sg.share_method = "Cdrom" /\ sg.pc = "idle"
    /\ sg' = [sg EXCEPT !.pc = "panic"]
    /\ UNCHANGED <<hsmSide, ca>>

\* ------------------------------------------------------------ key generation
\* number of *.keyspec.json files hsm_generate_key_batch may find
MaxKeySpecs == 3

\* labels the key specs carry
KeyLabels == {"rot-a", "rot-b"}

\* an output file: <label>.<ext>
OutFile(label, ext) == [label |-> label, ext |-> ext]

\* the key spec files read_dir may yield, by label
KeySpecPaths == UNION {[1..k -> KeyLabels] : k \in 0..MaxKeySpecs}

\* spec.id of a KeySpec: 0 asks the device to choose the object id
KeySpecIds == {0, 5}

\* the id generate_asymmetric_key returns for a requested id
AssignedIds(specId) == IF specId = 0 THEN {1} ELSE {specId}

GkIdle ==
    [pc |-> "idle", paths |-> <<>>, label |-> None, generated |-> {},
     wrapped |-> {}, attested |-> {}, files |-> {}, okFor |-> {}, ret |-> None,
     ops |-> <<>>, specId |-> {}, id |-> {}, exportedId |-> {}, attestedId |-> {}]

\* hsm_generate_key returns the error of a `?`, and the batch loop returns it
GkReturn(g, r) == [g EXCEPT !.pc = "returned", !.ret = r]

\* the call has issued the HSM operation op, answered ok or with an error
GkIssued(g, op, ok) == [g EXCEPT !.ops = Append(@, [op |-> op, ok |-> ok])]

\* hsm_generate_key_batch: fs::read_dir and the filter on the extension
GkListSpecs ==
    /\ gk.pc = "gk_list"
    /\ \/ gk' = [gk EXCEPT !.pc = "gk_next"]
       \/ gk' = GkReturn(gk, "IoError")
    /\ UNCHANGED <<hsmRun, bt, ca, sg>>

\* for path in paths { hsm_generate_key(client, &path, out_dir)?; } Ok(())
GkNextPath ==
    /\ gk.pc = "gk_next"
    /\ gk' = IF gk.paths = <<>>
             THEN GkReturn(gk, "Ok")
             ELSE [gk EXCEPT !.pc = "gk_read", !.label = Head(gk.paths),
                             !.paths = Tail(gk.paths), !.ops = <<>>,
                             !.specId = {}, !.id = {}, !.exportedId = {},
                             !.attestedId = {}]
    /\ UNCHANGED <<hsmRun, bt, ca, sg>>

\* hsm_generate_key: read and parse the key spec
GkReadSpec ==
    /\ gk.pc = "gk_read"
    /\ \/ \E sid \in KeySpecIds :
             gk' = [gk EXCEPT !.pc = "gk_generate", !.specId = {sid}]
       \/ gk' = GkReturn(gk, "IoError")
    /\ UNCHANGED <<hsmRun, bt, ca, sg>>

\* client.generate_asymmetric_key(spec.id, spec.label, ..)?
GkGenerate ==
    /\ gk.pc = "gk_generate"
    /\ LET g(ok) == GkIssued(gk, "generate_asymmetric_key", ok)
       IN  \/ \E sid \in gk.specId : \E id \in AssignedIds(sid) :
                 gk' = [g(TRUE) EXCEPT !.generated = @ \cup {gk.label}, !.id = {id},
                                       !.pc = "gk_export"]
           \/ gk' = GkReturn(g(FALSE), "HsmError")
    /\ UNCHANGED <<hsmRun, bt, ca, sg>>

\* client.export_wrapped(WRAP_ID, Type::AsymmetricKey, id)? and its JSON form
GkExportWrapped ==
    /\ gk.pc = "gk_export"
    /\ LET g(ok) == [GkIssued(gk, "export_wrapped", ok) EXCEPT !.exportedId = gk.id]
       IN  \/ gk' = [g(TRUE) EXCEPT
                        !.wrapped = @ \cup {[label |-> gk.label, wrap_id |-> WRAP_ID]},
                        !.pc = "gk_write_wrap"]
           \/ gk' = GkReturn(g(FALSE), "HsmError")
    /\ UNCHANGED <<hsmRun, bt, ca, sg>>

\* mutant: the wrapped export is not written
GkWriteWrap_NoWrite ==
    /\ gk.pc = "gk_write_wrap"
    /\ \/ gk' = [gk EXCEPT !.pc = "gk_attest"]
       \/ gk' = GkReturn(gk, "IoError")
    /\ UNCHANGED <<hsmRun, bt, ca, sg>>

\* fs::write(<out_dir>/<label>.wrap.json, msg_json)?
GkWriteWrap ==
    /\ gk.pc = "gk_write_wrap"
    /\ \/ gk' = [gk EXCEPT !.files = @ \cup {OutFile(gk.label, "wrap.json")},
                           !.pc = "gk_attest"]
       \/ gk' = GkReturn(gk, "IoError")
    /\ UNCHANGED <<hsmRun, bt, ca, sg>>

\* client.sign_attestation_certificate(spec.id, None)?
GkSignAttestation ==
    /\ gk.pc = "gk_attest"
    /\ LET g(ok) == [GkIssued(gk, "sign_attestation_certificate", ok)
                        EXCEPT !.attestedId = gk.specId]
       IN  \/ gk' = [g(TRUE) EXCEPT !.attested = @ \cup {gk.label},
                                    !.pc = "gk_write_attest"]
           \/ gk' = GkReturn(g(FALSE), "HsmError")
    /\ UNCHANGED <<hsmRun, bt, ca, sg>>

\* fs::write(<out_dir>/<label>.attest.cert.pem, attest_cert)?; Ok(())
GkWriteAttest ==
    /\ gk.pc = "gk_write_attest"
    /\ \/ gk' = [gk EXCEPT !.files = @ \cup {OutFile(gk.label, "attest.cert.pem")},
                           !.okFor = @ \cup {gk.label}, !.pc = "gk_next"]
       \/ gk' = GkReturn(gk, "IoError")
    /\ UNCHANGED <<hsmRun, bt, ca, sg>>

\* ------------------------------------------------------------ CA batch (main.rs)
\* number of key specs, and of signing requests, a batch may hold
MaxBatchSpecs == 2

\* do_ceremony before initialize_all_ca; keySpecs and csrSpecs are the labels
\* of the spec files found, in the order they are processed
BtIdle ==
    [pc |-> "idle", keySpecs |-> <<>>, csrSpecs |-> <<>>, paths |-> <<>>,
     label |-> None, bootFailed |-> {}, cas |-> {}, signed |-> {}, ret |-> None,
     dirs |-> <<>>]

\* a `?` or `return Err(..)` in initialize_all_ca or sign_all: do_ceremony
\* returns the error
BtReturn(b, r) == [b EXCEPT !.pc = "returned", !.ret = r]

\* initialize_all_ca: canonicalize, collect the key spec paths, none is an error
IacStart ==
    /\ bt.pc = "iac_start"
    /\ \/ bt' = BtReturn(bt, "IoError")
       \/ bt' = IF bt.keySpecs = <<>>
                THEN BtReturn(bt, "NoSpecs")
                ELSE [bt EXCEPT !.paths = bt.keySpecs, !.pc = "iac_next"]
    /\ UNCHANGED <<hsmRun, gk, ca, sg>>

\* for key_spec in paths: canonicalize, is_file, read, parse; Ok(map) at the end
IacNext ==
    /\ bt.pc = "iac_next"
    /\ IF bt.paths = <<>>
       THEN bt' = [bt EXCEPT !.pc = "sa_start"]
       ELSE \/ bt' = [bt EXCEPT !.label = Head(bt.paths), !.paths = Tail(bt.paths),
                                !.pc = "iac_ca_init"]
            \/ bt' = BtReturn(bt, "IoError")
    /\ UNCHANGED <<hsmRun, gk, ca, sg>>

\* let ca = Ca::initialize(spec, ..)?; map.insert(ca.name(), ca)
IacCaInitialize ==
    /\ bt.pc = "iac_ca_init"
    /\ \/ bt' = BtReturn([bt EXCEPT !.bootFailed = @ \cup {bt.label}], "CaInitError")
       \/ bt' = IF bt.label \in bt.cas
                THEN BtReturn(bt, "DuplicateLabel")
                ELSE [bt EXCEPT !.cas = @ \cup {bt.label}, !.pc = "iac_next"]
    /\ UNCHANGED <<hsmRun, gk, ca, sg>>

\* mutant: a label that is already in the map replaces its entry
LacCaLoad_ReplaceDuplicate ==
    /\ bt.pc = "lac_load"
    /\ \/ bt' = BtReturn(bt, "CaLoadError")
       \/ bt' = [bt EXCEPT !.cas = @ \cup {bt.label}, !.pc = "lac_next"]
    /\ UNCHANGED <<hsmRun, gk, ca, sg>>

\* load_all_ca: read_dir(ca_state), the entries that are directories; dirs
\* holds, for each directory, the label of the CA stored in it
LacStart ==
    /\ bt.pc = "lac_start"
    /\ \/ bt' = BtReturn(bt, "IoError")
       \/ bt' = [bt EXCEPT !.paths = bt.dirs, !.pc = "lac_next"]
    /\ UNCHANGED <<hsmRun, gk, ca, sg>>

\* for dir in dirs { .. } Ok(cas)
LacNext ==
    /\ bt.pc = "lac_next"
    /\ bt' = IF bt.paths = <<>>
             THEN BtReturn(bt, "Ok")
             ELSE [bt EXCEPT !.label = Head(bt.paths), !.paths = Tail(bt.paths),
                             !.pc = "lac_load"]
    /\ UNCHANGED <<hsmRun, gk, ca, sg>>

\* let ca = Ca::load(dir)?; if cas.insert(ca.name(), ca).is_some() { Err }
LacCaLoad ==
    /\ bt.pc = "lac_load"
    /\ \/ bt' = BtReturn(bt, "CaLoadError")
       \/ bt' = IF bt.label \in bt.cas
                THEN BtReturn(bt, "DuplicateLabel")
                ELSE [bt EXCEPT !.cas = @ \cup {bt.label}, !.pc = "lac_next"]
    /\ UNCHANGED <<hsmRun, gk, ca, sg>>

\* sign_all: canonicalize, collect the spec paths, none is an error
SaStart ==
    /\ bt.pc = "sa_start"
    /\ \/ bt' = BtReturn(bt, "IoError")
       \/ bt' = IF bt.csrSpecs = <<>>
                THEN BtReturn(bt, "NoSpecs")
                ELSE [bt EXCEPT !.paths = bt.csrSpecs, !.pc = "sa_next"]
    /\ UNCHANGED <<hsmRun, gk, ca, sg>>

\* for path in paths ..; Ok(())
SaNext ==
    /\ bt.pc = "sa_next"
    /\ bt' = IF bt.paths = <<>>
             THEN BtReturn(bt, "Ok")
             ELSE [bt EXCEPT !.label = Head(bt.paths), !.paths = Tail(bt.paths),
                             !.pc = "sa_sign"]
    /\ UNCHANGED <<hsmRun, gk, ca, sg>>

\* a CsrSpec: read, parse, cas.get(label), ca.sign_csrspec(..)?
SaSignCsrSpec ==
    /\ bt.pc = "sa_sign"
    /\ \/ bt' = BtReturn(bt, "IoError")
       \/ bt' = IF bt.label \notin bt.cas
                THEN BtReturn(bt, "NoCa")
                ELSE [bt EXCEPT !.signed = @ \cup {bt.label}, !.pc = "sa_next"]
       \/ bt.label \in bt.cas /\ bt' = BtReturn(bt, "SignError")
    /\ UNCHANGED <<hsmRun, gk, ca, sg>>

\* ------------------------------------------------------------ specification
CmdCfgs ==
    [command : {"Initialize"}, no_backup : BOOLEAN, challenge : BOOLEAN,
     auth_id : {{}, {1}, {2}}, env_password : {None, DEFAULT_PASSWORD},
     env_new_password : {None, "pwA"}]

CeremonyCfgs ==
    [command : {"Ceremony"}, no_backup : {FALSE}, challenge : BOOLEAN,
     auth_id : {{}}, env_password : {None}, env_new_password : {None, "pwA"}]

Init ==
    /\ InitHsmState
    /\ ca = CaIdle /\ sg = SgIdle /\ bt = BtIdle
    /\ \/ path = "lib" /\ pc = "hi_random" /\ cfg = LibCfg /\ gk = GkIdle
       \/ path = "cmd" /\ pc = "m_get_passwd" /\ cfg \in CmdCfgs /\ gk = GkIdle
       \/ path = "ceremony" /\ pc = "c_hsm_new1" /\ cfg \in CeremonyCfgs /\ gk = GkIdle
       \/ /\ path = "gen" /\ pc = "idle" /\ cfg = LibCfg
          /\ \E ps \in KeySpecPaths :
                gk = [GkIdle EXCEPT !.pc = "gk_list", !.paths = ps]

Next ==
    \/ HiGetRandom \/ HiPutWrapKey \/ HiAssertId
    \/ PPromptPassword \/ PPutAuthKey \/ PDeleteDefault \/ PExportWrapped
    \/ PWriteWrap \/ PGetOpaque \/ PWriteAttest
    \/ HiSplit \/ HiWaitBegin \/ HiOpenPrint \/ HiWaitReady \/ HiWriteShare
    \/ HiWaitCollected
    \/ RestoreStart \/ RReadShare \/ RRecover \/ RPutWrapKey
    \/ MGetPasswd \/ MHsmNew \/ MNewSplitWrap \/ MNewPasswd \/ MPrintPassword
    \/ MDumpAttest \/ MReplaceDefaultAuth
    \/ CHsmNew1 \/ CNewSplitWrap \/ CDumpAttest \/ CNewPasswd \/ CPrintPassword
    \/ CReplaceDefaultAuth \/ CHsmNew2 \/ CGenerate \/ CInitAllCa \/ CSignAll
    \/ GkListSpecs \/ GkNextPath \/ GkReadSpec \/ GkGenerate \/ GkExportWrapped
    \/ GkWriteWrap \/ GkSignAttestation \/ GkWriteAttest

Spec == Init /\ [][Next]_vars

\* the CA programs: one run of ca_initialize or of ca_sign
InitCa ==
    /\ InitHsmState /\ sg = SgIdle /\ gk = GkIdle /\ bt = BtIdle
    /\ path = "none" /\ pc = "idle" /\ cfg = LibCfg
    /\ \/ \E pu \in Purposes, st \in {"absent", "intact"} :
            ca = [CaIdle EXCEPT !.prog = "ca_initialize", !.pc = "ci_read_spec",
                                !.purpose = pu, !.caState = st]
       \/ \E n \in 0..MaxCsrSpecs :
            ca = [CaIdle EXCEPT !.prog = "ca_sign", !.pc = "cs_list", !.pathsLeft = n]

NextCa ==
    \/ CiReadSpec \/ CiPasswdToEnv \/ CiCurrentDir \/ CiCreateDir \/ CiSetCurrentDir
    \/ CiWriteKeySpec \/ CiBootstrapCa \/ CiSpawnConnector \/ CiTempDir
    \/ CiOpensslReq \/ CiOpensslSelfSign \/ CiKill \/ CiCopyCert \/ CiRestoreDir
    \/ CiMoveOut
    \/ CsListSpecs \/ CsSpawnConnector \/ CsPasswdToEnv \/ CsTempDir \/ CsNextPath
    \/ CsCsrReturned \/ CsKill
    \/ SsReadSpecs \/ SsMapPurpose \/ SsCanonPublish \/ SsCurrentDir
    \/ SsSetCurrentDir \/ SsWriteCsr \/ SsOpensslCa \/ SsRestoreDir

SpecCa == InitCa /\ [][NextCa]_vars

\* share acquisition: one ShareGetter and the get_share calls made on it
StdinInputs == UNION {[1..k -> StdinLines] : k \in 0..MaxStdinLines}

InitShares ==
    /\ InitHsmState /\ ca = CaIdle /\ gk = GkIdle /\ bt = BtIdle
    /\ path = "none" /\ pc = "idle" /\ cfg = LibCfg
    /\ \/ sg = NewShareGetter("Cdrom", <<>>, 0)
       \/ \E n \in 0..MaxIsoFiles : sg = NewShareGetter("Iso", <<>>, n)
       \/ \E in \in StdinInputs : sg = NewShareGetter("Stdin", in, 0)

NextShares == SgStdinCall \/ SgStdinRound \/ SgIsoGetShare \/ SgCdromGetShare

SpecShares == InitShares /\ [][NextShares]_vars

\* key generation: hsm_generate_key_batch over the key specs of a directory
InitGen ==
    /\ InitHsmState /\ ca = CaIdle /\ sg = SgIdle /\ bt = BtIdle
    /\ path = "none" /\ pc = "idle" /\ cfg = LibCfg
    /\ \E ps \in KeySpecPaths : gk = [GkIdle EXCEPT !.pc = "gk_list", !.paths = ps]

NextGen ==
    \/ GkListSpecs \/ GkNextPath \/ GkReadSpec \/ GkGenerate \/ GkExportWrapped
    \/ GkWriteWrap \/ GkSignAttestation \/ GkWriteAttest

SpecGen == InitGen /\ [][NextGen]_vars

\* CA batch: do_ceremony from initialize_all_ca on
SpecLists == UNION {[1..k -> KeyLabels] : k \in 0..MaxBatchSpecs}

InitBatch ==
    /\ InitHsmState /\ ca = CaIdle /\ sg = SgIdle /\ gk = GkIdle
    /\ path = "none" /\ pc = "idle" /\ cfg = LibCfg
    /\ \E ks \in SpecLists, cs \in SpecLists :
          bt = [BtIdle EXCEPT !.pc = "iac_start", !.keySpecs = ks, !.csrSpecs = cs]

NextBatch ==
    \/ IacStart \/ IacNext \/ IacCaInitialize \/ SaStart \/ SaNext \/ SaSignCsrSpec

SpecBatch == InitBatch /\ [][NextBatch]_vars

\* ---- the CA state directory: ca_initialize on a label whose directory may
\* exist, initialize_all_ca followed by sign_all, or load_all_ca
InitLoad ==
    /\ InitHsmState /\ ca = CaIdle /\ sg = SgIdle /\ gk = GkIdle
    /\ path = "none" /\ pc = "idle" /\ cfg = LibCfg
    /\ \E ds \in SpecLists : bt = [BtIdle EXCEPT !.pc = "lac_start", !.dirs = ds]

InitCaState == InitCa \/ InitBatch \/ InitLoad

NextCaState ==
    \/ CiReadSpec \/ CiPasswdToEnv \/ CiCurrentDir \/ CiCreateDir \/ CiSetCurrentDir
    \/ CiWriteKeySpec \/ CiBootstrapCa \/ CiSpawnConnector \/ CiTempDir
    \/ CiOpensslReq \/ CiOpensslSelfSign \/ CiKill \/ CiCopyCert \/ CiRestoreDir
    \/ CiMoveOut
    \/ CsListSpecs \/ CsSpawnConnector \/ CsPasswdToEnv \/ CsTempDir \/ CsNextPath
    \/ CsCsrReturned \/ CsKill
    \/ SsReadSpecs \/ SsMapPurpose \/ SsCanonPublish \/ SsCurrentDir
    \/ SsSetCurrentDir \/ SsWriteCsr \/ SsOpensslCa \/ SsRestoreDir
    \/ IacStart \/ IacNext \/ IacCaInitialize \/ SaStart \/ SaNext \/ SaSignCsrSpec
    \/ LacStart \/ LacNext \/ LacCaLoad

SpecCaState == InitCaState /\ [][NextCaState]_vars

\* credential selection of the `hsm` command, for every command
HsmCommands == {"Initialize", "Generate", "Restore", "SerialNumber"}

CredCfgs ==
    [command : HsmCommands, no_backup : {FALSE}, challenge : {FALSE},
     auth_id : {{}, {1}, {2}, {3}}, env_password : {None, DEFAULT_PASSWORD, "pwA"},
     env_new_password : {None}]

InitCred ==
    /\ InitHsmState
    /\ ca = CaIdle /\ sg = SgIdle /\ gk = GkIdle /\ bt = BtIdle
    /\ path = "cmd" /\ pc = "m_get_passwd" /\ cfg \in CredCfgs

NextCred == MGetPasswd \/ MHsmNew

SpecCred == InitCred /\ [][NextCred]_vars

\* ---- `hsm restore` against a device that holds the default credential, the
\* admin credential, or both
RestoreCfgs ==
    [command : {"Restore"}, no_backup : {FALSE}, challenge : {FALSE},
     auth_id : {{}, {1}, {2}}, env_password : {None, DEFAULT_PASSWORD, "pwA"},
     env_new_password : {None}]

InitRestore ==
    /\ wrapObj = {} /\ hsmRandom = <<>> /\ sessions = {}
    /\ defaultAuth \in BOOLEAN /\ adminAuth \in {None, "pwA"}
    /\ wrap_key = <<>> /\ retId = {} /\ password = None /\ personalize_ret = None
    /\ attestCert = FALSE /\ outFiles = {}
    /\ shares = <<>> /\ shareIdx = 0 /\ printed = <<>> /\ linesRead = 0
    /\ rshares = <<>> /\ rkey = <<>> /\ rWrapObj = {}
    /\ passwd = None /\ printedPasswd = None /\ cred = NoCred
    /\ prompt = NoPrompt /\ log = {} /\ hsmOps = <<>>
    /\ ca = CaIdle /\ sg = SgIdle /\ gk = GkIdle /\ bt = BtIdle
    /\ path = "cmd" /\ pc = "m_get_passwd" /\ cfg \in RestoreCfgs

NextRestore == MGetPasswd \/ MHsmNew \/ MRestoreWrap \/ MRestoreObjects \/ MDeleteDefault

SpecRestore == InitRestore /\ [][NextRestore]_vars

\* ------------------------------------------------------------ properties
\* the run started in hsm_initialize (restore follows it with the same state)
LibRun == path \in {"lib", "restore"}
WrapKeyInstalled == wrapObj # {}
AdminCredentialInstalled == adminAuth # None
DefaultCredentialRemoved == ~defaultAuth

\* C1 as stated: on every initialization path (hsm_initialize, `hsm initialize`
\* with or without --no-backup, do_ceremony) the admin credential is installed
\* and the default credential removed only once the wrap key is installed.
C1_WrapKeyFirst_AllPaths ==
    (AdminCredentialInstalled \/ DefaultCredentialRemoved) => WrapKeyInstalled

\* C1 amended: the ordering holds in hsm_initialize, in do_ceremony and in
\* `hsm initialize` without --no-backup; with --no-backup no wrap key is
\* installed and the default credential is replaced all the same.
C1_WrapKeyFirst ==
    (AdminCredentialInstalled \/ DefaultCredentialRemoved)
        => (WrapKeyInstalled \/ (path = "cmd" /\ cfg.no_backup))

C1_Witness ==
    /\ path = "lib" /\ pc = "p_export"
    /\ WrapKeyInstalled /\ AdminCredentialInstalled /\ DefaultCredentialRemoved

\* C2: in every state of personalize the HSM holds a usable credential: the
\* default credential is deleted only with the admin credential installed, a
\* failed install leaves the default credential, a failed delete leaves both.
C2_AlwaysACredential ==
    LibRun =>
        /\ defaultAuth \/ AdminCredentialInstalled
        /\ pc = "p_delete" => AdminCredentialInstalled /\ adminAuth = password
        /\ (personalize_ret = "Err" /\ ~AdminCredentialInstalled) => defaultAuth

C2_Witness ==
    /\ path = "lib" /\ pc = "err" /\ personalize_ret = "Err"
    /\ defaultAuth /\ AdminCredentialInstalled

\* C3: when personalize has returned Ok the default credential is gone and
\* the admin credential exists.
C3_NoCoexistenceAfterOk ==
    (LibRun /\ personalize_ret = "Ok")
        => (DefaultCredentialRemoved /\ AdminCredentialInstalled)

C3_Witness ==
    /\ path = "lib" /\ pc = "hi_split" /\ personalize_ret = "Ok"
    /\ DefaultCredentialRemoved /\ AdminCredentialInstalled

\* C4: the wrap key hsm_initialize installs is the KEY_LEN bytes of the device
\* PRNG, requested under id 1; when the device reports another id the run
\* stops there: no admin credential, default credential kept, nothing split
\* or printed.
C4_WrapKeyInstallAndIdCheck ==
    LibRun =>
        /\ \A w \in wrapObj :
              /\ w.key = hsmRandom /\ Len(w.key) = KEY_LEN
              /\ w.label = LABEL /\ w.alg = ALG
              /\ retId = {w.id}
              /\ pc \notin {"hi_assert", "panic"} => w.id = WRAP_ID
        /\ (retId # {} /\ retId # {WRAP_ID}) =>
              /\ pc \in {"hi_assert", "panic"}
              /\ ~AdminCredentialInstalled /\ defaultAuth
              /\ password = None /\ shares = <<>> /\ printed = <<>>

C4_Witness ==
    /\ path = "lib" /\ pc = "panic"
    /\ retId # {} /\ retId # {WRAP_ID} /\ WrapKeyInstalled

\* C8 as stated: on every path the attestation certificate is captured only
\* after the default credential has been removed.
C8_AttestAfterRemoval_AllPaths == attestCert => DefaultCredentialRemoved

\* C8 amended: in hsm_initialize/personalize the attestation certificate is
\* captured only after the default credential has been removed; in the
\* `hsm initialize` command and in do_ceremony it is captured before
\* replace_default_auth installs the admin credential and removes the default.
C8_AttestOrder ==
    /\ LibRun => (attestCert => (DefaultCredentialRemoved /\ AdminCredentialInstalled
                                 /\ WrapKeyInstalled))
    /\ path \in {"cmd", "ceremony"} =>
          ((DefaultCredentialRemoved \/ AdminCredentialInstalled) => attestCert)

C8_Witness ==
    /\ path = "ceremony" /\ pc = "c_hsm_new2"
    /\ attestCert /\ DefaultCredentialRemoved

\* the entered lines are THRESHOLD different shares of the printed set
GenuineDistinct(rs) ==
    /\ Len(rs) = THRESHOLD
    /\ \A i \in 1..Len(rs) : \E j \in 1..Len(printed) : rs[i] = printed[j]
    /\ \A i \in 1..Len(rs), j \in 1..Len(rs) : i # j => rs[i] # rs[j]

ValidShares(rs) ==
    {j \in 1..Len(printed) : \E i \in 1..Len(rs) : rs[i] = printed[j]}

\* exactly one entered line is a tampered copy, the others genuine and all of
\* different share numbers
OneTampered(rs) ==
    /\ Len(rs) = THRESHOLD
    /\ Cardinality(ValidShares(rs)) = THRESHOLD - 1
    /\ \E i \in 1..Len(rs) : \E j \in 1..Len(printed) :
          /\ rs[i] = Tamper(printed[j])
          /\ j \notin ValidShares(rs)

\* C10 as stated: with fewer than THRESHOLD valid shares, or with one of the
\* THRESHOLD shares tampered with, recombination fails and restore issues no
\* put_wrap_key.
C10_NoWrongKeyInstalled ==
    (path = "restore" /\ Len(rshares) = THRESHOLD
       /\ (Cardinality(ValidShares(rshares)) < THRESHOLD \/ OneTampered(rshares)))
        => (pc \notin {"r_put", "r_done"} /\ rWrapObj = {})

\* the connector process has been spawned by the running function
Spawned == ca.connector # "none"
CaReturned == ca.pc = "returned"

\* C5: every execution of ca_initialize and ca_sign that spawned the connector
\* has killed it when the function returns, with Ok or with any error.
C5_ConnectorKilledOnReturn ==
    (CaReturned /\ Spawned) => ca.connector = "killed"

\* C6: when ca_initialize or ca_sign_csrspec returns (Ok or Err) after having
\* switched to the CA directory, the working directory is the one recorded at
\* entry.
C6_WorkingDirRestored ==
    /\ (ca.prog = "ca_initialize" /\ CaReturned /\ ca.switched) => ca.cwd = ca.pwd
    /\ (ca.prog = "ca_sign" /\ ca.pc = "cs_csr_ret" /\ ca.switched) => ca.cwd = ca.pwd

\* C7: when a signing-engine step failed, the error returned is the signing
\* error (SelfCertGenFail in ca_initialize, the error of ca_sign_csrspec in
\* ca_sign), also when killing the connector fails.
C7_OriginalErrorReturned ==
    /\ (ca.prog = "ca_initialize" /\ CaReturned /\ ca.engineFailed)
          => ca.ret = "SelfCertGenFail"
    /\ (ca.prog = "ca_sign" /\ CaReturned /\ ca.csrRet \notin {None, "Ok"})
          => ca.ret = ca.csrRet

\* the run asks the operator for the new password (no env value, no Hsm)
Interactive ==
    \/ path = "lib"
    \/ path \in {"cmd", "ceremony"} /\ cfg.challenge /\ cfg.env_new_password = None

\* C11: the confirmation loop returns at most once, and what it returns is
\* the value entered as both entries of one round; before that nothing is
\* returned, and after a mismatched round followed by a matching one the
\* result is the matching value, no entry of the mismatched round.
C11_ConfirmedValueReturned ==
    Interactive =>
        /\ prompt.returns <= 1
        /\ prompt.returns = 1 =>
              /\ prompt.entry1 = prompt.entry2
              /\ password = prompt.entry1
              /\ prompt.entry1 \notin prompt.rejected => password \notin prompt.rejected
        /\ prompt.returns = 0 => password \in {None, Zeroed}

C11_Witness ==
    /\ path = "lib" /\ pc = "p_put_auth"
    /\ prompt.rounds = 1 /\ prompt.rejected = {"pwA", "pwB"}
    /\ prompt.returns = 1 /\ password = "pwC"

\* C12: a mismatched confirmation round changes nothing but the dialogue: the
\* program stays in the loop, returns no error, accepts no password and
\* installs no credential; the admin credential is only ever derived from the
\* value of a round with two equal entries.
C12_MismatchIsLocalRetry ==
    /\ [](Interactive =>
            /\ (adminAuth # None /\ prompt # NoPrompt) =>
                  /\ prompt.returns = 1
                  /\ prompt.entry1 = prompt.entry2 /\ adminAuth = prompt.entry1
            /\ prompt.returns = 0 /\ prompt.rounds > 0 =>
                  adminAuth = None /\ defaultAuth /\ password = None)
    /\ [][prompt'.rounds > prompt.rounds =>
            /\ pc' = pc /\ password' = password /\ adminAuth' = adminAuth
            /\ defaultAuth' = defaultAuth /\ personalize_ret' = personalize_ret
            /\ prompt'.returns = prompt.returns]_vars

C12_Witness ==
    /\ path = "cmd" /\ pc = "m_new_passwd"
    /\ prompt.rounds = MaxRetries /\ prompt.returns = 0
    /\ password = None /\ adminAuth = None

\* the run acquires shares with the given method
Acquiring(method) == sg.share_method = method
Returned(i) == sg.returned[i]
Calls == 1..Len(sg.returned)

C15_ThirdInputReturned ==
    (Acquiring("Stdin") /\ sg.input = <<NotHexLine, ShortHexLine, GoodShareLine(1)>>
       /\ ~sg.flushFailed /\ sg.pc # "panic") =>
        /\ Len(sg.stdin) = 1 => sg.stdin = <<GoodShareLine(1)>>
        /\ Len(sg.stdin) >= 1 => sg.returned = <<>>
        /\ sg.stdin = <<>> => sg.returned = <<OkSome(GoodShare(1))>>

\* no call so far ended with Err
NoErr == \A i \in Calls : Returned(i).kind # "Err"

\* C16: over a directory with the image files of shares 1..n (n = 5 for share_1-of-5 ..
\* share_5-of-5) the first n calls return the shares 1..n, one per call in the order
\* of the file names, and call n+1 returns End.
C16_IsoSharesInOrderThenEnd ==
    (Acquiring("Iso") /\ NoErr) =>
        \A i \in Calls :
            /\ i <= sg.isos => Returned(i) = OkSome(GoodShare(i))
            /\ i = sg.isos + 1 => Returned(i) = OkEnd

C16_Witness ==
    /\ Acquiring("Iso") /\ sg.isos = 5 /\ Len(sg.returned) = 6
    /\ \A i \in 1..5 : Returned(i) = OkSome(GoodShare(i))
    /\ Returned(6) = OkEnd

\* C17: once get_share has returned End, no later call on the same
\* ShareGetter returns a share.
C17_ExhaustionIsIdempotent ==
    Acquiring("Iso") =>
        \A i \in Calls, j \in Calls :
            (i < j /\ Returned(i) = OkEnd) => Returned(j).kind # "Some"

\* the calls i < j belong to one scan: no End between them
SameScan(i, j) == \A k \in i..j : Returned(k) # OkEnd

\* C18: the scan cursor is kept between calls: a call that finds the scan in
\* place advances it by one file, and within one scan no share file is
\* returned twice (the files come in increasing order).
C18_CursorAdvancesByOne ==
    /\ [](Acquiring("Iso") =>
            \A i \in Calls, j \in Calls :
                (i < j /\ SameScan(i, j) /\ Returned(i).kind = "Some"
                   /\ Returned(j).kind = "Some")
                    => Returned(i).share.n < Returned(j).share.n)
    /\ [][(Acquiring("Iso") /\ sg.share_globs # {} /\ sg'.share_globs # {})
            => \/ sg'.share_globs = sg.share_globs /\ sg'.returned = sg.returned
               \/ /\ Len(sg'.returned) = Len(sg.returned) + 1
                  /\ sg'.share_globs = {c + 1 : c \in sg.share_globs}]_vars

C18_Witness ==
    /\ Acquiring("Iso") /\ sg.share_globs = {4}
    /\ sg.returned = <<OkSome(GoodShare(1)), RetErr, OkSome(GoodShare(3))>>

\* C19: with ShareMethod::Cdrom a get_share call returns at most one share,
\* and an absent or unreadable medium is returned as Err: the process is not
\* aborted.
C19_CdromReportsErr ==
    Acquiring("Cdrom") =>
        /\ sg.pc # "panic"
        /\ \A i \in Calls : Returned(i).kind \in {"Some", "Err"}

\* ca_sign_csrspec is past the purpose match
PastPurposeMatch ==
    ca.prog = "ca_sign"
    /\ ca.pc \in {"ss_canon", "ss_current_dir", "ss_set_current_dir", "ss_write_csr",
                  "ss_openssl", "ss_restore_dir"}

\* C20: ca_sign_csrspec signs with the profile of the CA's purpose
\* (ProductionCodeSigningCA -> ProductionCodeSigning, DevelopmentCodeSigningCA
\* -> DevelopmentCodeSigning, Identity -> Identity); with any other purpose it
\* returns BadPurpose with the working directory, the files and the signing
\* engine untouched.
C20_ProfileFromCaPurpose ==
    /\ [](PastPurposeMatch =>
            \/ ca.purpose = "ProductionCodeSigningCA"
                  /\ ca.profile = "ProductionCodeSigning"
            \/ ca.purpose = "DevelopmentCodeSigningCA"
                  /\ ca.profile = "DevelopmentCodeSigning"
            \/ ca.purpose = "Identity" /\ ca.profile = "Identity")
    /\ []((ca.pc = "cs_csr_ret" /\ ca.csrRet = "BadPurpose") =>
            /\ ca.purpose \in {"ProductionCodeSigning", "DevelopmentCodeSigning"}
            /\ ~ca.switched /\ ca.cwd = "orig")
    /\ [][(ca.prog = "ca_sign" /\ ca.pc = "ss_purpose"
             /\ ca.purpose \in {"ProductionCodeSigning", "DevelopmentCodeSigning"})
            => /\ ca'.pc = "cs_csr_ret" /\ ca'.csrRet = "BadPurpose"
               /\ ca'.cwd = ca.cwd /\ ca'.files = ca.files
               /\ ca'.engineFailed = ca.engineFailed]_vars

C20_Witness ==
    /\ ca.prog = "ca_sign" /\ ca.pc = "cs_csr_ret" /\ ca.csrRet = "BadPurpose"
    /\ "cert.pem" \in ca.files /\ ca.purpose = "DevelopmentCodeSigning"



\* ---------------------------------------------------------------- C21
\* C21: ca_initialize on a KeySpec whose purpose is none of
\* ProductionCodeSigningCA, DevelopmentCodeSigningCA, Identity never gets past
\* reading the spec: when it returns after a successful read the error is
\* BadPurpose, and at no point has a file or directory been created, the
\* working directory changed, the password put in the environment, or the
\* connector or the signing engine started.
C21_BadPurposeBeforeEffects ==
    (/\ ca.prog = "ca_initialize"
     /\ ca.purpose \notin {"ProductionCodeSigningCA", "DevelopmentCodeSigningCA",
                           "Identity"})
    => /\ ca.pc \in {"ci_read_spec", "returned"}
       /\ ca.pc = "returned" => ca.ret \in {"BadPurpose", "IoError"}
       /\ ca.files = {} /\ ~ca.switched /\ ca.cwd = "orig"
       /\ ~ca.envAuth /\ ca.connector = "none" /\ ~ca.engineFailed

C21_Witness ==
    /\ ca.prog = "ca_initialize" /\ ca.purpose = "ProductionCodeSigning"
    /\ ca.pc = "returned" /\ ca.ret = "BadPurpose"
    /\ ca.files = {} /\ ~ca.envAuth /\ ca.connector = "none"

\* ---------------------------------------------------------------- C22
\* C22: the bootstrap runs the request step and then the self-sign step; a
\* non-zero exit of the request step makes ca_initialize return
\* SelfCertGenFail with the self-sign step never run, a non-zero exit of the
\* self-sign step makes ca_initialize fail, and a non-zero exit of the
\* signing step makes ca_sign_csrspec return CertGenFail.
C22_EngineFailureMapping ==
    /\ "ca.cert.pem" \in ca.files => "csr.pem" \in ca.files
    /\ (ca.prog = "ca_initialize" /\ ca.pc = "returned" /\ ca.engineFailed)
       => IF "csr.pem" \notin ca.files
          THEN ca.ret = "SelfCertGenFail" /\ "ca.cert.pem" \notin ca.files
          ELSE ca.ret # "Ok"
    /\ (ca.prog = "ca_sign" /\ ca.pc = "cs_csr_ret" /\ ca.engineFailed)
       => ca.csrRet = "CertGenFail"

\* the request step exited non-zero and ca_initialize returned
C22_RequestStepFailed ==
    /\ ca.prog = "ca_initialize" /\ ca.pc = "returned" /\ ca.engineFailed
    /\ "csr.pem" \notin ca.files

\* what does hold: the order of the steps, and every mapping but the one
\* above, which holds when the connector could be killed
C22_MappingUnlessKillFails ==
    /\ "ca.cert.pem" \in ca.files => "csr.pem" \in ca.files
    /\ C22_RequestStepFailed
       => /\ "ca.cert.pem" \notin ca.files /\ ca.profile = None
          /\ ca.ret \in {"SelfCertGenFail", "KillError"}
          /\ ca.ret = "KillError" <=> ca.connector = "running"
    /\ (ca.prog = "ca_initialize" /\ ca.pc = "returned" /\ ca.engineFailed
        /\ "csr.pem" \in ca.files)
       => ca.ret \in {"SelfCertGenFail", "KillError"}
    /\ (ca.prog = "ca_sign" /\ ca.pc = "cs_csr_ret" /\ ca.engineFailed)
       => ca.csrRet = "CertGenFail"

\* ---------------------------------------------------------------- C23
\* C23: hsm_initialize writes the shares one at a time, each after operator
\* input.  Share k is written when exactly 2k lines have been read (the line
\* that starts the recording, the "ready" lines of shares 1..k and the
\* "collected" lines of shares 1..k-1), so after the ready line of share k
\* and the collected line of share k-1; every write appends the next share in
\* index order; and hsm_initialize returns Ok with exactly the SHARES shares
\* written, each once, in order, and the last collection acknowledged.
C23_SharesPacedByOperator ==
    /\ [](path = "lib"
          => /\ printed = SubSeq(shares, 1, Len(printed))
             /\ linesRead >= 2 * Len(printed)
             /\ linesRead <= 2 * Len(printed) + 2
             /\ pc = "done" => /\ printed = shares /\ Len(printed) = SHARES
                               /\ linesRead = 2 * SHARES + 1)
    /\ [][path = "lib" /\ printed' # printed
          => /\ Len(printed') = Len(printed) + 1
             /\ printed' = SubSeq(shares, 1, Len(printed'))
             /\ linesRead = 2 * Len(printed')]_vars

C23_Witness ==
    /\ path = "lib" /\ pc = "done" /\ Len(printed) = SHARES
    /\ linesRead = 2 * SHARES + 1

\* ---------------------------------------------------------------- C24
\* C24: every buffer holding a new-password entry is zeroed after its last
\* use on every exit path: no entry of a mismatched round is dropped holding
\* its plaintext, and once personalize has returned, with Ok or with an
\* error, the accepted password is zeroed.
C24_PasswordBuffersZeroed ==
    /\ prompt.unzeroed = {}
    /\ (path = "lib" /\ personalize_ret # None) => password = Zeroed

\* the part that holds: personalize zeroes the accepted password when it
\* returns Ok, and get_new_passwd leaves no entry behind
C24_ZeroedOnOkOnly ==
    /\ (path = "lib" /\ personalize_ret = "Ok") => password = Zeroed
    /\ path # "lib" => prompt.unzeroed = {}

\* ---------------------------------------------------------------- C25
\* a buffer of n bytes after zeroize()
ZeroBytes(n) == [i \in 1..n |-> 0]

\* C25: the process-owned copies of the wrap key are zeroed after their last
\* use: in hsm_initialize the buffer read from the device PRNG is zeroed once
\* the key has been split, and in restore the recombined key is zeroed once
\* put_wrap_key has returned, with Ok or with an error.
C25_WrapKeyCopiesZeroed ==
    /\ (path = "lib" /\ pc \in {"hi_wait_begin", "hi_open_print", "hi_wait_ready",
                                "hi_write_share", "hi_wait_collected", "done"})
       => wrap_key = ZeroBytes(KEY_LEN)
    /\ (path = "restore" /\ pc \in {"r_done", "err"} /\ rkey # <<>>)
       => rkey = ZeroBytes(KEY_LEN)

\* hsm_initialize returned Ok and restore installed the recombined key: both
\* buffers still hold the key the device stores
C25_KeyBytesRemain ==
    /\ path = "restore" /\ pc = "r_done"
    /\ wrapObj # {} /\ \A o \in wrapObj : wrap_key = o.key /\ rkey = o.key

\* ---------------------------------------------------------------- C26
\* C26: neither the wrap-key bytes nor the new admin password are emitted in
\* plaintext by hsm_initialize, personalize, restore, do_ceremony or
\* `hsm initialize`: whatever the log level, no record carrying one of them is
\* written to the log, and the password is never written to the print device.
C26_NoPlaintextSecretEmitted ==
    /\ \A verbose \in BOOLEAN : Emitted(verbose) = {}
    /\ printedPasswd = None

\* what holds: at the default level (Info) the log carries no secret
C26_NoSecretAtInfoLevel == Emitted(FALSE) = {}

\* do_ceremony without a challenge printed the generated password
C26_PasswordOnPrintDevice ==
    /\ path = "ceremony" /\ ~cfg.challenge /\ printedPasswd \in GenPasswords

\* ---------------------------------------------------------------- C27
\* C27: whenever hsm_generate_key has returned Ok for a key spec, the key of
\* its label was generated in the HSM and exported wrapped under WRAP_ID, and
\* the files <label>.wrap.json and <label>.attest.cert.pem were written; and
\* an attestation is requested only with the wrapped export of that label
\* already written.
C27_GenerateKeyOk ==
    /\ [](\A l \in gk.okFor :
             /\ l \in gk.generated
             /\ [label |-> l, wrap_id |-> WRAP_ID] \in gk.wrapped
             /\ OutFile(l, "wrap.json") \in gk.files
             /\ OutFile(l, "attest.cert.pem") \in gk.files)
    /\ [](\A w \in gk.wrapped : w.wrap_id = WRAP_ID)
    /\ [][gk'.attested # gk.attested
          => /\ gk'.attested = gk.attested \cup {gk.label}
             /\ OutFile(gk.label, "wrap.json") \in gk.files]_vars

\* the batch returned Ok after generating the keys of both labels
C27_Witness ==
    /\ gk.pc = "returned" /\ gk.ret = "Ok" /\ gk.okFor = KeyLabels
    /\ \A l \in KeyLabels : OutFile(l, "attest.cert.pem") \in gk.files

\* ---------------------------------------------------------------- C28
\* labels of the entries of a sequence of spec files
LabelsOf(specs) == {specs[i] : i \in 1..Len(specs)}

\* C28: in batch mode a failed CA bootstrap stops the work for its label
\* only: when the run has ended and the bootstrap of one label failed, the CA
\* of every other key spec label is initialized and every signing request
\* that names one of those other labels is signed.
C28_FailedBootstrapIsolated ==
    (bt.pc = "returned" /\ bt.bootFailed # {})
    => \A l \in LabelsOf(bt.keySpecs) \ bt.bootFailed :
          /\ l \in bt.cas
          /\ l \in LabelsOf(bt.csrSpecs) => l \in bt.signed

\* what the code does: after a failed bootstrap nothing more is initialized
\* and nothing is signed
C28_FailedBootstrapAbortsAll ==
    /\ [](bt.bootFailed # {} => /\ bt.pc = "returned" /\ bt.ret = "CaInitError"
                                /\ bt.signed = {})
    /\ [][bt.bootFailed # {} => bt' = bt]_vars

\* the bootstrap of the first label failed with another label still to do
C28_OtherLabelLeftOut ==
    /\ bt.pc = "returned" /\ bt.bootFailed = {"rot-a"}
    /\ bt.keySpecs = <<"rot-a", "rot-b">> /\ bt.csrSpecs = <<"rot-b">>
    /\ bt.cas = {} /\ bt.signed = {}

\* ---------------------------------------------------------------- C29
\* control is at a call of get_new_passwd
InGetNewPasswd == pc \in {"m_new_passwd", "c_new_passwd"}

\* C29: get_new_passwd chooses by strict precedence.  With the new-password
\* environment variable set it returns exactly that value, prompts nobody and
\* requests no HSM randomness, with or without an Hsm; otherwise, with an Hsm
\* (no challenge requested), it requests a string of GEN_PASSWD_LENGTH
\* characters, returns it and prompts nobody; otherwise it prompts, and what
\* it returns is the entry of a matching round.
C29_NewPasswdPrecedence ==
    [][InGetNewPasswd
       => IF cfg.env_new_password # None
          THEN /\ password' = cfg.env_new_password
               /\ prompt' = prompt
               /\ pc' \notin {pc, "err"}
          ELSE IF ~cfg.challenge
          THEN /\ prompt'.randLen = {GEN_PASSWD_LENGTH}
               /\ prompt' = [prompt EXCEPT !.randLen = prompt'.randLen]
               /\ pc' # pc
               /\ pc' # "err" => /\ password' \in GenPasswords
                                 /\ Len(password') = GEN_PASSWD_LENGTH
          ELSE /\ prompt'.randLen = {}
               /\ pc' = "err" \/ prompt' # prompt
               /\ pc' \notin {pc, "err"}
                  => /\ password' = prompt'.entry1 /\ password' = prompt'.entry2
                     /\ prompt'.returns = prompt.returns + 1]_vars

\* the environment value was returned although an Hsm was supplied
C29_Witness ==
    /\ path = "ceremony" /\ pc = "c_print" /\ ~cfg.challenge
    /\ cfg.env_new_password = "pwA" /\ password = "pwA" /\ prompt = NoPrompt

\* with the variable unset and an Hsm supplied, a 16 character string
C29_WitnessGenerated ==
    /\ path = "cmd" /\ pc = "m_print" /\ cfg.env_new_password = None
    /\ Len(password) = 16 /\ prompt.randLen = {16} /\ prompt.returns = 0

\* ---------------------------------------------------------------- C30
\* C30: credential selection of the `hsm` commands.  The auth id passed to
\* Hsm::new is the caller's when one was given, else 1 for Initialize,
\* Restore and SerialNumber and 2 for Generate; the password is the value of
\* OKS_PASSWORD whenever that is set; and the factory-default password is
\* chosen exactly when no auth id was given, OKS_PASSWORD is unset and the
\* command is Initialize, Restore or SerialNumber, in which case the auth id
\* is the factory id 1.
C30_CredentialSelection ==
    path = "cmd"
    => /\ cred.auth_id # {}
          => cred.auth_id =
                IF cfg.auth_id # {} THEN cfg.auth_id
                ELSE CASE cfg.command \in {"Initialize", "Restore", "SerialNumber"} -> {1}
                       [] cfg.command = "Generate" -> {2}
       /\ (cred.from # None /\ cfg.env_password # None)
          => cred.from = "env" /\ passwd = cfg.env_password
       /\ cred.from # None
          => (cred.from = "default"
              <=> /\ cfg.auth_id = {} /\ cfg.env_password = None
                  /\ cfg.command \in {"Initialize", "Restore", "SerialNumber"})
       /\ cred.from = "default"
          => /\ passwd = DEFAULT_PASSWORD
             /\ cred.auth_id \subseteq {DEFAULT_AUTHENTICATION_KEY_ID}

\* Generate without an auth id: the password was prompted for and id 2 used
C30_Witness ==
    /\ path = "cmd" /\ cfg.command = "Generate" /\ cfg.auth_id = {}
    /\ cfg.env_password = None /\ cred = [auth_id |-> {2}, from |-> "prompt"]

\* Restore without an auth id or OKS_PASSWORD: the factory credential opens
\* the session
C30_WitnessDefault ==
    /\ path = "cmd" /\ pc = "m_dispatch" /\ cfg.command = "Restore"
    /\ cred = [auth_id |-> {1}, from |-> "default"] /\ sessions = {1}

\* ---------------------------------------------------------------- C31
\* C31: the personalization state only moves forward.  No step of
\* hsm_initialize or personalize, succeeding or failing, removes or replaces
\* an installed wrap key, removes or changes an installed admin credential,
\* or re-creates a removed default credential.
C31_PersonalizationMonotone ==
    [][path = "lib"
       => /\ WrapKeyInstalled => wrapObj' = wrapObj
          /\ AdminCredentialInstalled => adminAuth' = adminAuth
          /\ DefaultCredentialRemoved => ~defaultAuth']_vars

\* a failure after the default credential was removed: nothing was undone
C31_Witness ==
    /\ path = "lib" /\ pc = "err" /\ personalize_ret = "Err"
    /\ WrapKeyInstalled /\ AdminCredentialInstalled /\ DefaultCredentialRemoved

\* ---------------------------------------------------------------- C32
\* in a sequence of issued operations none occurs twice and only the last
\* one may have failed
NoRetry(ops) ==
    /\ \A i, j \in 1..Len(ops) : i # j => ops[i].op # ops[j].op
    /\ \A i \in 1..Len(ops) : i < Len(ops) => ops[i].ok

\* C32: HSM errors are not retried and end the call.  Within one call of
\* hsm_initialize (with personalize), restore or hsm_generate_key every HSM
\* operation is issued at most once, and once an operation has failed no
\* further operation is issued by that call.
C32_NoRetryAfterHsmError ==
    /\ [](NoRetry(hsmOps) /\ NoRetry(gk.ops))
    /\ [][/\ (hsmOps # <<>> /\ ~hsmOps[Len(hsmOps)].ok) => hsmOps' = hsmOps
          /\ (gk.ops # <<>> /\ ~gk.ops[Len(gk.ops)].ok) => gk'.ops = gk.ops]_vars

\* delete_object failed in personalize after two operations that succeeded
C32_Witness ==
    /\ path = "lib" /\ pc = "err" /\ Len(hsmOps) = 4
    /\ hsmOps[4] = [op |-> "delete_object", ok |-> FALSE]
    /\ \A i \in 1..3 : hsmOps[i].ok

\* export_wrapped failed in hsm_generate_key
C32_WitnessGenerate ==
    /\ gk.pc = "returned" /\ gk.ret = "HsmError" /\ Len(gk.ops) = 2
    /\ ~gk.ops[2].ok

C34_CredentialChanged ==
    /\ path \in {"cmd", "ceremony"} /\ ~cfg.challenge
    /\ (adminAuth' # adminAuth \/ defaultAuth' # defaultAuth)

\* C34: on the initialize paths without a password challenge, every step
\* that calls replace_default_auth starts from a state in which the new
\* password is on the print device, and whenever the admin credential is
\* installed or the default credential is removed, the installed password is
\* the one that was printed.
C34_PrintedBeforeReplace ==
    /\ [](path \in {"cmd", "ceremony"} /\ ~cfg.challenge
          => /\ pc \in {"m_replace", "c_replace"} => printedPasswd = password
             /\ AdminCredentialInstalled \/ DefaultCredentialRemoved
                => printedPasswd = adminAuth)
    /\ [][C34_CredentialChanged => (printedPasswd = password /\ password # None)]_vars

\* the default credential was replaced by the printed generated password
C34_Witness ==
    /\ path = "cmd" /\ ~cfg.challenge /\ pc = "done"
    /\ DefaultCredentialRemoved /\ adminAuth = printedPasswd
    /\ printedPasswd \in GenPasswords

\* the print device failed and the default credential is still in place
C34_WitnessPrintFailed ==
    /\ path = "ceremony" /\ ~cfg.challenge /\ pc = "err"
    /\ password \in GenPasswords /\ printedPasswd = None
    /\ defaultAuth /\ ~AdminCredentialInstalled

\* ---------------------------------------------------------------- C35
\* the credential of auth id a is on the device
CredentialPresent(a) ==
    \/ a = DEFAULT_AUTHENTICATION_KEY_ID /\ defaultAuth
    \/ a = AUTH_ID /\ AdminCredentialInstalled

\* a step of `hsm restore` that changes the default credential
C35_DefaultChanged ==
    /\ path = "cmd" /\ cfg.command = "Restore"
    /\ defaultAuth' # defaultAuth

\* C35: `hsm restore` deletes the default credential only in its last step,
\* after restore_wrap and hsm::restore both returned Ok in this order; a
\* run that ends in an error has not changed the default credential and
\* still holds the credential its session authenticated with.
C35_DeleteOnlyAfterRestore ==
    /\ [][C35_DefaultChanged
          => (/\ pc = "m_delete" /\ pc' = "done"
              /\ hsmOps = <<[op |-> "restore_wrap", ok |-> TRUE],
                            [op |-> "restore", ok |-> TRUE]>>
              /\ rWrapObj # {} /\ AdminCredentialInstalled)]_vars
    /\ [][path = "cmd" /\ cfg.command = "Restore" /\ pc' = "err"
          => defaultAuth' = defaultAuth]_vars
    /\ [](path = "cmd" /\ cfg.command = "Restore" /\ pc = "err"
          => \A a \in sessions : CredentialPresent(a))

\* the command finished: wrap key and objects restored, default credential gone
C35_Witness ==
    /\ path = "cmd" /\ cfg.command = "Restore" /\ pc = "done"
    /\ sessions = {DEFAULT_AUTHENTICATION_KEY_ID}
    /\ rWrapObj # {} /\ AdminCredentialInstalled /\ DefaultCredentialRemoved

\* hsm::restore failed after restore_wrap: the default credential is in place
C35_WitnessRestoreFailed ==
    /\ path = "cmd" /\ cfg.command = "Restore" /\ pc = "err"
    /\ sessions = {DEFAULT_AUTHENTICATION_KEY_ID}
    /\ Len(hsmOps) = 2 /\ ~hsmOps[2].ok
    /\ defaultAuth

\* ---------------------------------------------------------------- C36
\* C36: in hsm_generate_key the object id passed to
\* sign_attestation_certificate is the id generate_asymmetric_key returned,
\* which is also the id passed to export_wrapped.
C36_AttestedIsGenerated ==
    /\ gk.exportedId # {} => gk.exportedId = gk.id
    /\ gk.attestedId # {} => gk.attestedId = gk.id

\* what the code does: the export names the returned id, the attestation
\* names the requested id
C36_AttestedIsRequested ==
    /\ gk.exportedId # {} => gk.exportedId = gk.id
    /\ gk.attestedId # {} => gk.attestedId = gk.specId

\* a key spec with id 0: the exported object and the attested id differ
C36_DeviceChoseId ==
    /\ gk.specId = {0} /\ gk.exportedId = {1} /\ gk.attestedId = {0}
    /\ gk.pc = "gk_write_attest"
\* ---------------------------------------------------------------- C37
\* the labels of a list are pairwise distinct
DistinctLabels(specs) == Cardinality(LabelsOf(specs)) = Len(specs)

\* C37: ca_initialize for a label whose directory exists gets no further
\* than the directory creation, returns an error, writes no file, keeps the
\* working directory and leaves the CA state in that directory as it was;
\* initialize_all_ca and load_all_ca return a map only when every label
\* occurred once, with one CA per label.
C37_CaDirCreatedOnce ==
    /\ ca.caState # "overwritten"
    /\ ca.prog = "ca_initialize" /\ ca.caState = "intact"
       => /\ ca.pc \in {"ci_read_spec", "ci_passwd", "ci_current_dir",
                        "ci_create_dir", "returned"}
          /\ ca.files = {} /\ ~ca.switched /\ ca.cwd = "orig"
          /\ ca.pc = "returned" => ca.ret \in {"IoError", "BadPurpose"}
    /\ bt.pc \in {"sa_start", "sa_next", "sa_sign"} \/ bt.signed # {}
       => DistinctLabels(bt.keySpecs) /\ bt.cas = LabelsOf(bt.keySpecs)
    /\ bt.dirs # <<>> /\ bt.pc = "returned" /\ bt.ret = "Ok"
       => DistinctLabels(bt.dirs) /\ bt.cas = LabelsOf(bt.dirs)
    /\ bt.pc = "returned" /\ ~DistinctLabels(bt.keySpecs) => bt.ret # "Ok"
    /\ bt.pc = "returned" /\ ~DistinctLabels(bt.dirs) => bt.ret # "Ok"

\* ca_initialize failed at the creation of a directory that exists
C37_Witness ==
    /\ ca.prog = "ca_initialize" /\ ca.caState = "intact"
    /\ ca.pc = "returned" /\ ca.ret = "IoError" /\ ca.envAuth

\* load_all_ca found two directories holding the same label
C37_WitnessDuplicate ==
    /\ bt.dirs = <<"rot-a", "rot-a">> /\ bt.pc = "returned"
    /\ bt.ret = "DuplicateLabel"
\* ---------------------------------------------------------------- C38
\* the file the scan is at: the first one when no scan is in place
ScanCursor == IF sg.share_globs = {} THEN 1 ELSE CHOOSE c \in sg.share_globs : TRUE

\* this step is a get_share call on image files that returns a value of kind k
IsoCallReturned(k) ==
    /\ Acquiring("Iso")
    /\ Len(sg'.returned) = Len(sg.returned) + 1
    /\ sg'.ret.kind = k

\* C38: a get_share call on image files that returns an error has moved the
\* scan past the file it was at (unless the scan could not be started), and
\* a call that returns a share returns the one of the file the scan was at
\* and moves past it: after a failed read the next call is at the following
\* file and the failed file is not read again in this scan.
C38_FailedFileSkipped ==
    /\ [][IsoCallReturned("Err")
          => \/ sg'.share_globs = {ScanCursor + 1}
             \/ sg.share_globs = {} /\ sg'.share_globs = {}]_vars
    /\ [][IsoCallReturned("Some")
          => /\ sg'.ret.share.n = Glob(sg.isos)[ScanCursor]
             /\ sg'.share_globs = {ScanCursor + 1}]_vars

\* the read of the first file failed; the next call returned the second
C38_Witness ==
    /\ Acquiring("Iso") /\ sg.share_globs = {3}
    /\ Len(sg.returned) = 2
    /\ sg.returned[1] = RetErr
    /\ sg.returned[2] = OkSome(GoodShare(2))

====
